---- MODULE Spec2Model ----
(***************************************************************************)
(* A model of axl::Delegate: the fixed-signature specialisation            *)
(* Delegate<Ret(Args...)>, the dynamic-signature specialisation            *)
(* Delegate<Ret(...)> (hash-gated dispatch), and the earlier               *)
(* single-signature-commit class Delegate.                                 *)
(*                                                                         *)
(* Texts are sequences of character codes.  A delegate is its stub         *)
(* pointer (_proxy / _wrapper) and its storage union; the legacy class is  *)
(* its three fields.  One program run constructs one delegate, whose       *)
(* variant is chosen in Init.                                              *)
(***************************************************************************)
EXTENDS Integers, Sequences, FiniteSets, TLC

(***************************************************************************)
(* Bounds of the model.                                                    *)
(***************************************************************************)
\* int values range over 0..MaxVal
MaxVal == 1
\* the longest text handed to the text functions
MaxTextLen == 4
\* a std::size_t counter wraps around at this value
SizeModulus == 4
\* the longest text that is hashed: long enough for the hash to exceed 2^32
MaxHashLen == 7

(***************************************************************************)
(* Text fragments of the compiler's rendering of a type inside             *)
(* _DELEGATE_FUNCTION_SIGNATURE.  The rendering is the compiler's, not the *)
(* library's; it is kept in the MSVC shape  prefix typeName<T>(void)  with *)
(* the names shortened (std::add_rvalue_reference is written rref).        *)
(***************************************************************************)
\* "void"
TxtVoid == <<118, 111, 105, 100>>
\* "int"
TxtInt == <<105, 110, 116>>
\* "bool"
TxtBool == <<98, 111, 111, 108>>
\* "const "
TxtConst == <<99, 111, 110, 115, 116, 32>>
\* "&"
TxtLRef == <<38>>
\* "&&"
TxtRRef == <<38, 38>>
\* "(*)("
TxtPtrOpen == <<40, 42, 41, 40>>
\* ")"
TxtClose == <<41>>
\* ","
TxtComma == <<44>>
\* "("
TxtParenOpen == <<40>>
\* "float"
TxtFloat == <<102, 108, 111, 97, 116>>
\* "int*"
TxtIntPtr == <<105, 110, 116, 42>>
\* "volatile "
TxtVolatile == <<118, 111, 108, 97, 116, 105, 108, 101, 32>>
\* "<"
TxtAngleOpen == <<60>>
\* ">"
TxtAngleClose == <<62>>
\* "rref<"
TxtAddRRefOpen == <<114, 114, 101, 102, 60>>
\* "auto typeName<"
TxtFuncSigPrefix == <<97, 117, 116, 111, 32, 116, 121, 112, 101, 78, 97, 109, 101, 60>>
\* ">(void)"
TxtFuncSigSuffix == <<62, 40, 118, 111, 105, 100, 41>>

(***************************************************************************)
(* Compile-time string hashing (detail::hash)                              *)
(***************************************************************************)
\* A std::uint32_t is kept as two 16-bit halves <<high, low>>, so that the
\* arithmetic below is exactly arithmetic modulo 2^32.
Half == 256 * 256

UInt32(high, low) == <<high, low>>

\* (prime * h + c) mod 2^32, for prime and c below 2^15
MulAdd(prime, h, c) ==
    LET low == prime * h[2] + c
        high == prime * h[1] + (low \div Half)
    IN UInt32(high % Half, low % Half)

defaultPrimeNumber == 31

RECURSIVE hashLoop(_, _, _, _, _)
hashLoop(prime, s, len, i, h) ==
    \* h holds a std::uint32_t at every iteration
    IF i >= len \/ h[1] >= Half THEN h
    ELSE hashLoop(prime, s, len, i + 1, MulAdd(prime, h, s[i + 1]))

\* hash(prime, const char* s, len): h = 0; for i < len: h = prime * h + s[i]
hashPtr(prime, s, len) == hashLoop(prime, s, len, 0, UInt32(0, 0))

\* not the code's: a recursion that leaves the last character out
hashArrayTruncating(prime, s, len) == hashPtr(prime, s, len - 1)

\* hash(prime, const char (&s)[N], len = N - 1), for the array that holds the
\* characters of s and the terminating zero (N = Len(s) + 1):
\* (len <= 1) ? s[0] : prime * hash(prime, s, len - 1) + s[len - 1];
\* the call inside it finds the template itself, the only hash declared before it
RECURSIVE hashArray(_, _, _)
hashArray(prime, s, len) ==
    IF len <= 1 THEN UInt32(0, IF Len(s) = 0 THEN 0 ELSE s[1])
    ELSE MulAdd(prime, hashArray(prime, s, len - 1), s[len])

\* hash(prime, string_view s)
hashView(prime, s) == hashPtr(prime, s, Len(s))

\* hash(string_view s), with the default prime
hash(s) == hashView(defaultPrimeNumber, s)

(***************************************************************************)
(* Function reflexion (detail::prettifyName, detail::typeName)             *)
(***************************************************************************)
npos == -1

\* s.find_last_of(c), as a 0-based index, or npos: the scan starts at the end
RECURSIVE find_last_from(_, _, _)
find_last_from(s, c, k) ==
    IF k = 0 THEN npos
    ELSE IF s[k] = c THEN k - 1
    ELSE find_last_from(s, c, k - 1)

find_last_of(s, c) == find_last_from(s, c, Len(s))

\* the loop of prettifyName: i is the 0-based index, the result is `start`;
\* the loop stops before index 0 (i > 0), and is entered only when end > 0
RECURSIVE prettifyScan(_, _, _)
prettifyScan(s, i, tokens) ==
    IF i <= 0 THEN 0
    ELSE IF s[i + 1] = Head(TxtAngleClose) THEN prettifyScan(s, i - 1, tokens + 1)
    ELSE IF s[i + 1] = Head(TxtAngleOpen)
         THEN IF tokens > 0 THEN prettifyScan(s, i - 1, tokens - 1) ELSE i + 1
    ELSE prettifyScan(s, i - 1, tokens)

prettifyName(s) ==
    LET end == find_last_of(s, Head(TxtAngleClose)) IN
    IF end = npos THEN <<>>
    ELSE LET start == prettifyScan(s, end - 1, 0) IN
         SubSeq(s, start + 1, end)

\* _DELEGATE_FUNCTION_SIGNATURE inside typeName<T>(), for the text t of T
FunctionSignatureText(t) == TxtFuncSigPrefix \o t \o TxtFuncSigSuffix

typeName(t) == prettifyName(FunctionSignatureText(t))

(***************************************************************************)
(* Types and function types                                                *)
(***************************************************************************)
BaseTypes == {"int", "bool"}

\* a parameter or argument type: base type, reference kind, const qualification
Type(base, ref, const) == [base |-> base, ref |-> ref, const |-> const]

\* std::decay_t
decay_t(t) == Type(t.base, "val", FALSE)

\* a function type R(Args...)
FunctionType(ret, args) == [ret |-> ret, args |-> args]

\* the language drops a top-level const of a by-value parameter of a function type
AdjustParameter(t) == IF t.ref = "val" THEN Type(t.base, "val", FALSE) ELSE t

TypeText(t) ==
    LET a == AdjustParameter(t) IN
    (IF a.const THEN TxtConst ELSE <<>>)
    \o (CASE a.base = "int" -> TxtInt [] a.base = "float" -> TxtFloat
          [] a.base = "int*" -> TxtIntPtr [] OTHER -> TxtBool)
    \o (IF a.ref = "lref" THEN TxtLRef ELSE IF a.ref = "rref" THEN TxtRRef ELSE <<>>)

ReturnText(r) == IF r = "void" THEN TxtVoid ELSE TxtInt

RECURSIVE JoinTexts(_)
JoinTexts(ts) ==
    IF Len(ts) = 0 THEN TxtVoid
    ELSE IF Len(ts) = 1 THEN ts[1]
    ELSE ts[1] \o TxtComma \o JoinTexts(Tail(ts))

\* the text of R(*)(Args...), given the texts of Args
FunctionPointerText(ret, argTexts) ==
    ReturnText(ret) \o TxtPtrOpen \o JoinTexts(argTexts) \o TxtClose

\* hashSignature<R, Args...>() for the texts of Args
hashSignature(ret, argTexts) == hash(typeName(FunctionPointerText(ret, argTexts)))

\* the text of std::add_rvalue_reference<Arg> (the class template, not its ::type)
AddRValueReferenceText(t) == TxtAddRRefOpen \o TypeText(t) \o TxtAngleClose

\* not the code's: a hash of the return type alone
returnTypeHash(f) == hashSignature(f.ret, <<>>)

\* traits::function_type_impl<R(*)(Args...)>::hash
function_hash(f) ==
    hashSignature(f.ret, [i \in 1..Len(f.args) |-> AddRValueReferenceText(f.args[i])])

\* the parameter list of the lambda bound in main(): (int& a, bool, const int b)
MainLambdaParameters ==
    <<Type("int", "lref", FALSE), Type("bool", "val", FALSE), Type("int", "val", TRUE)>>

\* calls pass up to as many arguments as the largest bound target takes
MaxArity == Len(MainLambdaParameters)

\* the function types whose parameters are decayed, up to the largest arity called
DecayedArgLists ==
    UNION {[1..n -> {Type(b, "val", FALSE) : b \in BaseTypes}] : n \in 0..MaxArity}

DecayedFunctionTypes ==
    {FunctionType(r, a) : r \in {"void", "int"}, a \in DecayedArgLists}

\* a compile-time constant of each function type: the pairs <<type, constant>>
ConstantOf(table, f) == (CHOOSE p \in table : p[1] = f)[2]

\* function_hash is a compile-time constant of each function type
FunctionHashTable == {<<f, function_hash(f)>> : f \in DecayedFunctionTypes}

\* MetaFunction<R, Args...>::decayedSignatureHash
decayedSignatureHash(f) ==
    ConstantOf(FunctionHashTable,
               FunctionType(f.ret, [i \in 1..Len(f.args) |-> decay_t(f.args[i])]))

\* MetaFunction<R, Args...>::signature: the text of R(*)(Args...)
signature(f) ==
    typeName(FunctionPointerText(f.ret, [i \in 1..Len(f.args) |-> TypeText(f.args[i])]))

(***************************************************************************)
(* The callables of the program                                            *)
(*   dynamic delegate Delegate<void(...)>:                                 *)
(*     f0, g0  void()                  T::m  void T::m(), instances p, q   *)
(*     F   functor void(), objects o1, o2                                  *)
(*     E0  lambda []()                 C  lambda [k](), captured k1 or k2  *)
(*     E1  lambda [](int)                                                  *)
(*     E3  lambda [](int& a, bool, const int b) { a += b; }                *)
(*   Every proxy but the one of executeEmptyCallable hands its             *)
(*   ReflectedArg<...> parameters to std::invoke as they are, so the       *)
(*   targets it is instantiated for take no parameter.                     *)
(*   fixed delegate Delegate<int(int)>: gi, hi, T::mi, Fi, Ei, Ci          *)
(*   single-signature class: f0, f3 (E3 as a function), fi, gi             *)
(***************************************************************************)
IntByValue == <<Type("int", "val", FALSE)>>

CallableSignature ==
    [c \in {"f0", "g0", "f3", "fi", "T::m", "F", "E0", "E1", "E3", "C",
            "gi", "hi", "T::mi", "Fi", "Ei", "Ci", "Cv", "Cr"} |->
        CASE c \in {"f0", "g0", "E0", "T::m", "F", "C"} -> FunctionType("void", <<>>)
          [] c \in {"f3", "E3"} -> FunctionType("void", MainLambdaParameters)
          [] c = "E1" -> FunctionType("void", IntByValue)
          [] OTHER -> FunctionType("int", IntByValue)]

\* what each variant of the program binds
FreeFunctions(v) == IF v = "fixed" THEN {"gi", "hi"} ELSE {"f0", "g0"}
MemberFunction(v) == IF v = "fixed" THEN "T::mi" ELSE "T::m"
Functor(v) == IF v = "fixed" THEN "Fi" ELSE "F"
EmptyCallables(v) == IF v = "fixed" THEN {"Ei"} ELSE {"E0", "E1", "E3"}
Closure(v) == IF v = "fixed" THEN "Ci" ELSE "C"
Instances == {"p", "q"}
Objects == {"o1", "o2"}
Captures == {"k1", "k2"}

\* closures over the caller's variable z, as main.cpp binds them:
\*   "Cv"  [v = z](int y) { return v + y; }      captures by value
\*   "Cr"  [&z](int y) { z += y; return z; }     captures by reference
ZClosures == {"Cv", "Cr"}

\* the name of the function pointer type of a free function: R(*)(Args...)
PointerTypeOf(f) == CASE f \in {"f0", "g0"} -> "void(*)()"
                      [] f = "f3" -> "void(*)(int&,bool,int)"
                      [] OTHER -> "int(*)(int)"

PointerTypeSignature(t) == CASE t = "void(*)()" -> CallableSignature["f0"]
                             [] t = "void(*)(int&,bool,int)" -> CallableSignature["f3"]
                             [] OTHER -> CallableSignature["fi"]

(***************************************************************************)
(* Stubs: the values of _proxy / _wrapper.  kind is the static member      *)
(* function template, T its template argument (a function, a class or a   *)
(* function pointer type), const whether T is const-qualified.             *)
(***************************************************************************)
Stub(kind, T, const) == [kind |-> kind, T |-> T, const |-> const]

throwBadCall == Stub("throwBadCall", "", FALSE)

\* the union: the member last written and the bytes it holds
Storage(member, val) == [member |-> member, val |-> val]

\* std::byte _storage[BufferSize] {} : all bytes zero
ZeroStorage == Storage("_storage", "null")

\* decltype(Target), F or R(*)(Args...): the function type a stub was instantiated for
StubTarget(stub) ==
    IF stub.kind = "executeStatelessCallable" THEN PointerTypeSignature(stub.T)
    ELSE CallableSignature[stub.T]

\* a callee: the function that runs and the object or captured state it runs on
Callee(fn, self) == [fn |-> fn, self |-> self]

NoCallee == Callee("none", "none")

\* not the code's: a proxy that always takes its object from the storage
StubCalleeFromStorage(stub, storage) == Callee(stub.T, storage.val)

\* the member of the union a stub's proxy reads, "none" when it reads none
StubReads(stub) ==
    CASE stub.kind \in {"executeMemberFunction", "executeCallableView"} ->
            IF stub.const THEN "_constInstance" ELSE "_instance"
      [] stub.kind = "executeStatefulCallable" -> "_storage"
      [] stub.kind = "executeStatelessCallable" -> "_function"
      [] OTHER -> "none"

\* what a stub's proxy invokes, read from the storage of the delegate
StubCallee(stub, storage) ==
    CASE stub.kind \in {"executeFunction", "executeEmptyCallable"} -> Callee(stub.T, "none")
      [] stub.kind \in {"executeMemberFunction", "executeCallableView",
                        "executeStatefulCallable"} -> Callee(stub.T, storage.val)
      [] stub.kind = "executeStatelessCallable" -> Callee(storage.val, "none")
      [] OTHER -> NoCallee

(***************************************************************************)
(* Arguments of a call on the dynamic delegate.  An argument is named by   *)
(* the type the forwarding reference Args&& deduces for it:                *)
(*   "int&"  the caller's variable z        "const int&"  std::as_const(z) *)
(*   "int"   the literal 1                  "const int"   a const rvalue 1 *)
(*   "bool"  the literal false                                             *)
(***************************************************************************)
ArgKinds == {"int&", "const int&", "int", "const int", "bool"}

DeducedType(k) ==
    CASE k = "int&" -> Type("int", "lref", FALSE)
      [] k = "const int&" -> Type("int", "lref", TRUE)
      [] k = "int" -> Type("int", "val", FALSE)
      [] k = "const int" -> Type("int", "val", TRUE)
      [] k = "int&&" -> Type("int", "rref", FALSE)
      [] k = "const int&&" -> Type("int", "rref", TRUE)
      [] k = "float" -> Type("float", "val", FALSE)
      [] k = "float&" -> Type("float", "lref", FALSE)
      [] k = "int*" -> Type("int*", "val", FALSE)
      [] OTHER -> Type("bool", "val", FALSE)

\* the calls of the program: no argument, one argument of each kind, two
\* arguments, three arguments that decay to (int, bool, int), and (int, int, int)
IntKinds == ArgKinds \ {"bool"}

CallShapes ==
    {<<>>} \cup {<<k>> : k \in ArgKinds} \cup {<<"int&", "bool">>, <<"int&", "int", "int">>}
    \cup {<<a, "bool", c>> : a \in IntKinds, c \in {"int", "const int"}}

\* MetaFunction<Ret, Args...> invokedFunction
InvokedFunction(ret, shape) ==
    FunctionType(ret, [i \in 1..Len(shape) |-> DeducedType(shape[i])])

RefersToZ(k) == k \in {"int&", "const int&"}

ArgValues(shape, zval) ==
    [i \in 1..Len(shape) |->
        IF RefersToZ(shape[i]) THEN zval ELSE IF shape[i] = "bool" THEN 0 ELSE 1]

\* ReflectedArg(U&& parameter): isConst is set when the deduced U is const
ReflectedArgIsConst(k) == k = "const int"

(***************************************************************************)
(* Dynamic delegate: the signature gate                                    *)
(***************************************************************************)
WrapperResult(proxy, raised) == [proxy |-> proxy, raised |-> raised]

\* not the code's: a gate that throws on every mismatch
getProxyFunctionThrowing(target, invoked, throwOnMismatch) ==
    IF decayedSignatureHash(target) = decayedSignatureHash(invoked)
    THEN WrapperResult(TRUE, "none")
    ELSE WrapperResult(FALSE, "BadDelegateArguments")

\* getProxyFunction<Target, GenericProxy>(invoked, throwOnMismatch)
getProxyFunction(target, invoked, throwOnMismatch) ==
    IF decayedSignatureHash(target) = decayedSignatureHash(invoked)
    THEN WrapperResult(TRUE, "none")
    ELSE IF throwOnMismatch THEN WrapperResult(FALSE, "BadDelegateArguments")
    ELSE WrapperResult(FALSE, "none")

\* not the code's: a wrapper that looks at the arguments before the target
WrapperArgumentsFirst(stub, invoked, throwOnMismatch) ==
    IF Len(invoked.args) > 0 /\ throwOnMismatch
    THEN WrapperResult(FALSE, "BadDelegateArguments")
    ELSE IF stub.kind = "throwBadCall" THEN WrapperResult(FALSE, "BadDelegateCall")
    ELSE getProxyFunction(StubTarget(stub), invoked, throwOnMismatch)

\* _wrapper(invokedFunction, throwOnMismatch)
Wrapper(stub, invoked, throwOnMismatch) ==
    IF stub.kind = "throwBadCall" THEN WrapperResult(FALSE, "BadDelegateCall")
    ELSE getProxyFunction(StubTarget(stub), invoked, throwOnMismatch)

\* ReflectedArg::forward<U>() for a parameter type U that is not const: it throws
\* when isConst, and otherwise flows off its end without a return statement
ForwardOutcomes(shape) ==
    (IF \E i \in 1..Len(shape) : ReflectedArgIsConst(shape[i]) THEN {"exception"} ELSE {})
    \cup (IF \E i \in 1..Len(shape) : ~ReflectedArgIsConst(shape[i])
          THEN {"delivered", "garbage", "crash"} ELSE {})

\* how the proxy of a stub hands the arguments to the target
ProxyOutcomes(stub, shape) ==
    IF stub.kind = "executeEmptyCallable" /\ Len(shape) > 0 THEN ForwardOutcomes(shape)
    ELSE {"delivered"}

(***************************************************************************)
(* What the targets do                                                     *)
(***************************************************************************)
\* f3 and E3: a += b, on the caller's variable when a refers to it
TargetWritesZ(callee, shape) ==
    callee.fn \in {"f3", "E3"} /\ Len(shape) = 3 /\ RefersToZ(shape[1])

ZAfter(callee, shape, zval) ==
    IF TargetWritesZ(callee, shape)
    THEN (zval + ArgValues(shape, zval)[3]) % (MaxVal + 1)
    ELSE zval

Weight(name) ==
    CASE name = "gi" -> 1 [] name = "hi" -> 2 [] name = "T::mi" -> 3 [] name = "Fi" -> 4
      [] name = "Ei" -> 5 [] name = "Ci" -> 6
      [] name \in {"p", "o1", "k1"} -> 10 [] name \in {"q", "o2", "k2"} -> 20
      [] OTHER -> 0

\* the result of a direct call callee(x) of an int(int) callable
DirectCall(callee, x) == x + Weight(callee.fn) + Weight(callee.self)

\* the bytes of a closure object: the text of the captured int, or the
\* address of the caller's variable
CaptureBytes(F, zval) == IF F = "Cv" THEN ToString(zval) ELSE "&z"

\* the int a closure's capture denotes when the caller's variable holds zval
CapturedInt(bytes, zval) ==
    IF bytes = "&z" THEN zval ELSE CHOOSE n \in 0..MaxVal : ToString(n) = bytes

\* std::invoke(target, x) on a closure over z: the result and z afterwards
ClosureCall(callee, x, zval) ==
    LET v == CapturedInt(callee.self, zval) IN
    IF callee.fn = "Cr"
    THEN [value |-> (v + x) % (MaxVal + 1), z |-> (v + x) % (MaxVal + 1)]
    ELSE [value |-> v + x, z |-> zval]

\* std::invoke(target, x) on any int(int) target
TargetCall(callee, x, zval) ==
    IF callee.fn \in ZClosures THEN ClosureCall(callee, x, zval)
    ELSE [value |-> DirectCall(callee, x), z |-> zval]

(***************************************************************************)
(* Storage of the fixed-signature delegate                                 *)
(***************************************************************************)
\* sizeof(void*) and alignof(void*) of the build
PointerWidth == 8

Max(a, b) == IF a >= b THEN a ELSE b

\* static constexpr auto PointerSize = (std::max)(sizeof(AnyTarget), sizeof(void*))
PointerSize == Max(PointerWidth, PointerWidth)

\* not the code's: a buffer of the configured size
BufferSizeAsConfigured(StorageSize) == StorageSize

\* static constexpr auto BufferSize = (std::max)(StorageSize, PointerSize)
BufferSize(StorageSize) == Max(StorageSize, PointerSize)

\* a closure type: sizeof, alignof and the traits the library asks for
ClosureType(size, align, uniqueRep, trivDtor, trivCopy, invocable) ==
    [size |-> size, align |-> align, uniqueRep |-> uniqueRep,
     trivDtor |-> trivDtor, trivCopy |-> trivCopy, invocable |-> invocable]

\* Delegate<int(int), StorageSize, Alignment> and the closure type bound to it
Build(StorageSize, Alignment, F) ==
    [StorageSize |-> StorageSize, Alignment |-> Alignment, F |-> F]

\* Delegate<int(int)>: StorageSize = sizeof(void*), Alignment = alignof(void*),
\* binding a closure that holds one reference
DefaultBuild ==
    Build(PointerWidth, PointerWidth,
          ClosureType(PointerWidth, PointerWidth, FALSE, TRUE, TRUE, TRUE))

\* not the code's: a test that looks at the size only
is_storable_by_size(b, F) == F.size <= BufferSize(b.StorageSize)

\* is_storable<F>: sizeof(F) <= BufferSize && alignof(F) <= Alignment
is_storable(b, F) == F.size <= BufferSize(b.StorageSize) /\ F.align <= b.Alignment

\* is_likely_lambda<F> for a closure type with captures: it is an object, it
\* is callable, it is not assignable and it is constructible from itself
is_likely_lambda(F) == ~F.uniqueRep /\ F.trivDtor /\ F.trivCopy

\* is_likely_capturing_lambda<F> for a closure type with captures: it is not
\* empty and does not convert to a function pointer
is_likely_capturing_lambda(F) == is_likely_lambda(F)

\* the enable_if of bind(F&& target) and of Delegate(F&& target)
BindClosureEnabled(b) ==
    is_likely_capturing_lambda(b.F) /\ is_storable(b, b.F) /\ b.F.invocable

RoundUp(n, a) == ((n + a - 1) \div a) * a

\* alignof of the anonymous union: its members are three pointers and
\* alignas(Alignment) std::byte _storage[BufferSize]
UnionAlignment(b) == Max(b.Alignment, PointerWidth)

\* sizeof of the anonymous union
UnionSize(b) == RoundUp(Max(BufferSize(b.StorageSize), PointerSize), UnionAlignment(b))

\* sizeof(Delegate<Ret(Args...), StorageSize, Alignment>): the union, then _proxy
SizeofDelegate(b) == RoundUp(UnionSize(b) + PointerWidth, UnionAlignment(b))

\* no thread is inside a bind
Idle == [locking |-> FALSE, pending |-> <<>>]

(***************************************************************************)
(* The exceptions of the library: both derive from std::runtime_error,     *)
(* which keeps a copy of its message in memory it allocates                *)
(***************************************************************************)
\* the length of the message of BadDelegateCall
BadCallMessageLength == 54

\* the length of the format string of BadDelegateArguments without its fields
BadArgumentsMessageLength == 38

\* the longest std::string that owns no memory (the largest of the three
\* standard libraries' small-string capacities)
SmallStringCapacity == 22

\* std::string of a given length: the allocations its construction makes
StringAllocations(len) == IF len > SmallStringCapacity THEN 1 ELSE 0

\* std::runtime_error { what }: one allocation for the copy of the message
RuntimeErrorAllocations == 1

\* the heap allocations an operation makes, by the error it constructs:
\* BadDelegateCall() is std::runtime_error { "..." }; BadDelegateArguments
\* (target, invoked) is std::runtime_error { std::format("...", ...) }
HeapAllocations(operation) ==
    CASE operation.raised = "BadDelegateCall" -> RuntimeErrorAllocations
      [] operation.raised = "BadDelegateArguments" ->
            StringAllocations(BadArgumentsMessageLength) + RuntimeErrorAllocations
      [] OTHER -> 0

(***************************************************************************)
(* State                                                                   *)
(***************************************************************************)
VARIABLES
    variant,   \* which class the program's delegate is: "fixed", "dynamic", "legacy"
    stub,      \* _proxy (fixed) / _wrapper (dynamic)
    storage,   \* the anonymous union { _instance, _constInstance, _function, _storage }
    legacy,    \* _functor, _handle, _hashedSignature of the single-signature class
    z,         \* the caller's int variable, passed by reference
    last,      \* the last operation: its inputs, what it raised, what it invoked
    bound,     \* history: the callee given to the last bind, NoCallee after reset
    copy,      \* a second Delegate<int(int)> object: its _proxy, its union, its history
    build,     \* the template arguments StorageSize and Alignment of the delegate
               \* and the traits of the closure type F the program binds to it
    threads    \* the threads sharing the delegate: whether they lock, and the
               \* store a bind in progress has still to make

vars == <<variant, stub, storage, legacy, z, last, bound, copy, build, threads>>

\* the record of an operation
Operation(op, shape, x, raised, end, invoked, value) ==
    [op |-> op, shape |-> shape, x |-> x, raised |-> raised, end |-> end,
     invoked |-> invoked, value |-> value]

NoValue == 0 - 1

Invocation(callee, args) == [callee |-> callee, args |-> args]

\* std::terminate was called, or the program crashed: nothing runs any more
Running == last.end \in {"returned", "threw"}

\* the return type of the dynamic delegate of the program: Delegate<void(...)>
DynamicRet == "void"

(***************************************************************************)
(* hasTarget() and reset()                                                 *)
(***************************************************************************)
hasTarget == stub # throwBadCall

\* not the code's: a bind that keeps the first signature bound (as assign does)
BoundCommitted(op, newStub, newStorage, callee) ==
    /\ Running
    /\ variant \in {"fixed", "dynamic"}
    /\ IF hasTarget /\ newStub # throwBadCall
           /\ CallableSignature[callee.fn] # CallableSignature[bound.fn]
       THEN UNCHANGED <<stub, storage>>
       ELSE stub' = newStub /\ storage' = newStorage
    /\ bound' = callee
    /\ last' = Operation(op, <<>>, 0, "none", "returned", <<>>, NoValue)
    /\ UNCHANGED <<variant, legacy, z, copy, build, threads>>

\* the stores of a bind or a reset: the stub, the union member, nothing else
Bound(op, newStub, newStorage, callee) ==
    /\ Running
    /\ variant \in {"fixed", "dynamic"}
    /\ stub' = newStub
    /\ storage' = newStorage
    /\ bound' = callee
    /\ last' = Operation(op, <<>>, 0, "none", "returned", <<>>, NoValue)
    /\ UNCHANGED <<variant, legacy, z, copy, build, threads>>

\* not the code's: a reset that leaves the stub in place
ResetLeavingStub == Bound("reset", stub, storage, NoCallee)

\* reset(): _proxy = &throwBadCall
Reset == Bound("reset", throwBadCall, storage, NoCallee)

(***************************************************************************)
(* bind(...) overloads; operator= and the constructors do the same stores. *)
(* bind(std::function&&) is BindStdFunction, further down: its body        *)
(* assigns a closure that holds the std::function to *this, no overload of *)
(* operator= takes a closure that is not trivially copyable, so no program *)
(* that instantiates it is well-formed.                                    *)
(***************************************************************************)
\* bind<Target>()
BindFunction(f) ==
    Bound("bind", Stub("executeFunction", f, FALSE), storage, Callee(f, "none"))

\* bind<Target>(T* instance)
BindMemberFunction(instance) ==
    Bound("bind", Stub("executeMemberFunction", MemberFunction(variant), FALSE),
          Storage("_instance", instance), Callee(MemberFunction(variant), instance))

\* not the code's: a bind of a const instance that writes the other pointer
BindConstMemberFunctionThroughInstance(instance) ==
    Bound("bind", Stub("executeMemberFunction", MemberFunction(variant), TRUE),
          Storage("_instance", instance), Callee(MemberFunction(variant), instance))

\* bind<Target>(const T* instance)
BindConstMemberFunction(instance) ==
    Bound("bind", Stub("executeMemberFunction", MemberFunction(variant), TRUE),
          Storage("_constInstance", instance), Callee(MemberFunction(variant), instance))

\* bind(F* target)
BindCallableView(target) ==
    Bound("bind", Stub("executeCallableView", Functor(variant), FALSE),
          Storage("_instance", target), Callee(Functor(variant), target))

\* bind(const F* target)
BindConstCallableView(target) ==
    Bound("bind", Stub("executeCallableView", Functor(variant), TRUE),
          Storage("_constInstance", target), Callee(Functor(variant), target))

\* bind(F&&) / bind<F>() for an empty default-constructible F
BindEmptyCallable(F) ==
    Bound("bind", Stub("executeEmptyCallable", F, FALSE), storage, Callee(F, "none"))

\* bind(F&& target) for a capturing lambda: new (_storage) F(target)
BindStatefulCallable(capture) ==
    Bound("bind", Stub("executeStatefulCallable", Closure(variant), FALSE),
          Storage("_storage", capture), Callee(Closure(variant), capture))

\* not the code's: a bind that stores the address of the captured variable
\* where the closure holds a copy of it
BindClosureByReference(F) ==
    Bound("bind", Stub("executeStatefulCallable", F, FALSE),
          Storage("_storage", "&z"), Callee(F, CaptureBytes(F, z)))

\* bind(F&& target) for a closure over the caller's z:
\* _proxy = &executeStatefulCallable<F>; new (_storage) F(std::forward<F>(target))
BindClosure(F) ==
    Bound("bind", Stub("executeStatefulCallable", F, FALSE),
          Storage("_storage", CaptureBytes(F, z)), Callee(F, CaptureBytes(F, z)))

\* the caller assigns its variable between two operations on the delegate
CallerWritesZ(v) ==
    /\ Running
    /\ z' = v
    /\ last' = Operation("assign", <<>>, v, "none", "returned", <<>>, NoValue)
    /\ UNCHANGED <<variant, stub, storage, legacy, bound, copy, build, threads>>

\* bind(R(*target)(Args...))
BindFunctionPointer(target) ==
    Bound("bind", Stub("executeStatelessCallable", PointerTypeOf(target), FALSE),
          Storage("_function", target), Callee(target, "none"))

(***************************************************************************)
(* hasTarget(x): one overload per kind of binding.  A query names the stub *)
(* instantiated for its template arguments and the value it passes.        *)
(***************************************************************************)
Query(queried, val) == [stub |-> queried, val |-> val]

Queries(v) ==
    {Query(Stub("executeFunction", f, FALSE), "none") : f \in FreeFunctions(v)}
        \cup {Query(Stub("executeMemberFunction", MemberFunction(v), c), i) :
                    c \in BOOLEAN, i \in Instances}
        \cup {Query(Stub("executeCallableView", Functor(v), c), o) :
                    c \in BOOLEAN, o \in Objects}
        \cup {Query(Stub("executeEmptyCallable", F, FALSE), "none") : F \in EmptyCallables(v)}
        \cup {Query(Stub("executeStatefulCallable", Closure(v), FALSE), k) : k \in Captures}
        \cup {Query(Stub("executeStatelessCallable", PointerTypeOf(f), FALSE), f) :
                    f \in FreeFunctions(v)}

\* whether a call of the overload of hasTarget for the query compiles:
\*  - hasTarget(const F& target) is enabled for !has_unique_object_representations_v<F>
\*    and, a closure having no operator==, asserts has_unique_object_representations_v<F>;
\*  - hasTarget<Target>(instance) of Delegate<Ret(Args...)> is enabled for
\*    is_invocable_r_v<Ret, decltype(Target), Args...>: a member function called
\*    without its object
HasTargetCompiles(v, q) ==
    /\ q.stub.kind # "executeStatefulCallable"
    /\ q.stub.kind = "executeMemberFunction" => v = "dynamic"

\* the value hasTarget(x) returns: _proxy == &stub<...> && member == value
HasTargetValue(q) ==
    /\ stub = q.stub
    /\ StubReads(q.stub) # "none" => storage.val = q.val

\* d.hasTarget(x)
HasTargetQuery(q) ==
    /\ Running
    /\ variant \in {"fixed", "dynamic"}
    /\ last' = IF HasTargetCompiles(variant, q)
               THEN Operation("hasTarget", <<q>>, 0, "none", "returned", <<>>,
                              IF HasTargetValue(q) THEN 1 ELSE 0)
               ELSE Operation("hasTarget", <<q>>, 0, "none", "ill-formed", <<>>, NoValue)
    /\ UNCHANGED <<variant, stub, storage, legacy, z, bound, copy, build, threads>>

(***************************************************************************)
(* Fixed-signature delegate Delegate<int(int)>: operator()                 *)
(***************************************************************************)
\* return _proxy(this, std::forward<UArgs>(args)...)
FixedCall(x) ==
    /\ Running
    /\ variant = "fixed"
    /\ last' = IF stub.kind = "throwBadCall"
               THEN Operation("call", <<>>, x, "BadDelegateCall", "threw", <<>>, NoValue)
               ELSE LET callee == StubCallee(stub, storage) IN
                    Operation("call", <<>>, x, "none", "returned",
                              <<Invocation(callee, <<x>>)>>, TargetCall(callee, x, z).value)
    /\ z' = IF stub.kind = "throwBadCall" THEN z
            ELSE TargetCall(StubCallee(stub, storage), x, z).z
    /\ UNCHANGED <<variant, stub, storage, legacy, bound, copy, build, threads>>

(***************************************************************************)
(* Dynamic-signature delegate Delegate<void(...)>: operator(), isInvokable *)
(***************************************************************************)
\* the proxy runs: the target is invoked with what the proxy hands it
ProxyRuns(shape, outcome, garbage) ==
    LET callee == StubCallee(stub, storage) IN
    CASE outcome = "delivered" ->
            /\ last' = Operation("call", shape, 0, "none", "returned",
                                 <<Invocation(callee, ArgValues(shape, z))>>, NoValue)
            /\ z' = ZAfter(callee, shape, z)
      [] outcome = "garbage" ->
            /\ last' = Operation("call", shape, 0, "none", "returned",
                                 <<Invocation(callee, [i \in 1..Len(shape) |-> garbage])>>,
                                 NoValue)
            /\ z' = z
      [] outcome = "exception" ->
            \* thrown inside forward(), which is noexcept
            /\ last' = Operation("call", shape, 0, "std::exception", "terminate", <<>>, NoValue)
            /\ z' = z
      [] OTHER ->
            /\ last' = Operation("call", shape, 0, "none", "crash", <<>>, NoValue)
            /\ z' = z

\* not the code's: a call that unbinds the delegate when the gate refuses it
DynamicCallResetting(shape) ==
    /\ Running
    /\ variant = "dynamic"
    /\ LET w == Wrapper(stub, InvokedFunction(DynamicRet, shape), TRUE) IN
       IF w.raised # "none"
       THEN /\ last' = Operation("call", shape, 0, w.raised, "threw", <<>>, NoValue)
            /\ z' = z
            /\ stub' = throwBadCall
       ELSE /\ \E outcome \in ProxyOutcomes(stub, shape), garbage \in 0..MaxVal :
                /\ outcome # "garbage" => garbage = 0
                /\ ProxyRuns(shape, outcome, garbage)
            /\ stub' = stub
    /\ UNCHANGED <<variant, storage, legacy, bound, copy, build, threads>>

DynamicCall(shape) ==
    /\ Running
    /\ variant = "dynamic"
    /\ LET w == Wrapper(stub, InvokedFunction(DynamicRet, shape), TRUE) IN
       IF w.raised # "none"
       THEN /\ last' = Operation("call", shape, 0, w.raised, "threw", <<>>, NoValue)
            /\ z' = z
       ELSE \E outcome \in ProxyOutcomes(stub, shape), garbage \in 0..MaxVal :
                /\ outcome # "garbage" => garbage = 0
                /\ ProxyRuns(shape, outcome, garbage)
    /\ UNCHANGED <<variant, stub, storage, legacy, bound, copy, build, threads>>

\* isInvokable<Args...>() noexcept
IsInvokable(shape) ==
    /\ Running
    /\ variant = "dynamic"
    /\ LET w == Wrapper(stub, InvokedFunction(DynamicRet, shape), FALSE) IN
       last' = IF w.raised # "none"
               THEN Operation("isInvokable", shape, 0, w.raised, "terminate", <<>>, NoValue)
               ELSE Operation("isInvokable", shape, 0, "none", "returned", <<>>,
                              IF w.proxy THEN 1 ELSE 0)
    /\ UNCHANGED <<variant, stub, storage, legacy, z, bound, copy, build, threads>>

(***************************************************************************)
(* The revision of the dynamic-signature delegate whose gate is            *)
(* MetaFunction::isCompatibleWith (include/Delegate/Delegate.hpp)          *)
(***************************************************************************)
\* whether pat occurs in s at the 0-based index i
OccursAt(s, pat, i) ==
    /\ i + Len(pat) <= Len(s)
    /\ \A j \in 1..Len(pat) : s[i + j] = pat[j]

\* std::string_view::find(pat, from): the first index, or npos
RECURSIVE find(_, _, _)
find(s, pat, from) ==
    IF from + Len(pat) > Len(s) THEN npos
    ELSE IF OccursAt(s, pat, from) THEN from
    ELSE find(s, pat, from + 1)

\* std::string_view::find_first_of(",)", from)
RECURSIVE find_first_of(_, _, _)
find_first_of(s, chars, from) ==
    IF from >= Len(s) THEN npos
    ELSE IF s[from + 1] \in chars THEN from
    ELSE find_first_of(s, chars, from + 1)

FunctionArgument(isConst, isVolatile, isLValue, isRValue) ==
    [isConst |-> isConst, isVolatile |-> isVolatile, isLValue |-> isLValue, isRValue |-> isRValue]

\* FunctionArgument(std::string_view representation)
FunctionArgumentFromText(t) ==
    LET isRValue == find(t, TxtRRef, 0) # npos IN
    FunctionArgument(find(t, TxtConst, 0) # npos, find(t, TxtVolatile, 0) # npos,
                     ~isRValue /\ find(t, TxtLRef, 0) # npos, isRValue)

\* the loop of FunctionSignature::nthArgument: offset is the index of '(' or of a ','
RECURSIVE nthArgumentLoop(_, _, _, _)
nthArgumentLoop(s, index, offset, separators) ==
    IF offset = npos THEN FunctionArgument(FALSE, FALSE, FALSE, FALSE)
    ELSE IF separators = index
         THEN LET end == find_first_of(s, {Head(TxtComma), Head(TxtClose)}, offset + 1) IN
              FunctionArgumentFromText(
                  SubSeq(s, offset + 2, IF end = npos THEN Len(s) ELSE end))
    ELSE nthArgumentLoop(s, index, find(s, TxtComma, offset + 1), separators + 1)

\* FunctionSignature::nthArgument(index)
SignatureNthArgument(s, index) ==
    nthArgumentLoop(s, index, find_last_of(s, Head(TxtParenOpen)), 0)

\* isArgumentCompatibleWith<OriginalArg>(invoked): OriginalArg is never volatile
\* and is copy- and move-constructible
isArgumentCompatibleWith(OriginalArg, invoked) ==
    LET a == AdjustParameter(OriginalArg) IN
    CASE a.ref = "lref" ->
            IF a.const THEN ~invoked.isVolatile
            ELSE invoked.isLValue /\ ~invoked.isConst /\ ~invoked.isVolatile
      [] a.ref = "rref" ->
            IF a.const THEN ~invoked.isLValue /\ ~invoked.isVolatile
            ELSE ~invoked.isLValue /\ ~invoked.isConst /\ ~invoked.isVolatile
      [] OTHER -> TRUE

\* MetaFunction<R, Args...>::isCompatibleWith(rhs)
isCompatibleWith(target, rhs) ==
    /\ Len(target.args) = Len(rhs.args)
    /\ \/ signature(target) = signature(rhs)
       \/ \A i \in 1..Len(target.args) :
             isArgumentCompatibleWith(target.args[i],
                                      SignatureNthArgument(signature(rhs), i - 1))

\* the functions the program of the revision binds, by their parameters
RevisedTargets == {"void(int)", "void(float)", "void(int&)", "void(const int&)", "void(int,float)"}

RevisedSignature(name) ==
    FunctionType("void",
        CASE name = "void(int)" -> <<DeducedType("int")>>
          [] name = "void(float)" -> <<DeducedType("float")>>
          [] name = "void(int&)" -> <<DeducedType("int&")>>
          [] name = "void(const int&)" -> <<DeducedType("const int&")>>
          [] OTHER -> <<DeducedType("int"), DeducedType("float")>>)

RevisedArgKinds == {"int&", "const int&", "int", "float", "float&", "int*"}

RevisedCallShapes ==
    {<<>>} \cup {<<k>> : k \in RevisedArgKinds}
           \cup {<<a, b>> : a \in {"int", "int&", "float"}, b \in {"float", "int", "int*"}}

\* bind(R(*target)(Args...)): _function = target; _wrapper = &executeStatelessCallable<R, Args...>
RevisedBind(target) ==
    /\ Running
    /\ variant = "revised"
    /\ stub' = Stub("executeStatelessCallable", target, FALSE)
    /\ storage' = Storage("_function", target)
    /\ bound' = Callee(target, "none")
    /\ last' = Operation("bind", <<>>, 0, "none", "returned", <<>>, NoValue)
    /\ UNCHANGED <<variant, legacy, z, copy, build, threads>>

\* reset()
RevisedReset ==
    /\ Running
    /\ variant = "revised"
    /\ stub' = throwBadCall
    /\ bound' = NoCallee
    /\ last' = Operation("reset", <<>>, 0, "none", "returned", <<>>, NoValue)
    /\ UNCHANGED <<variant, storage, legacy, z, copy, build, threads>>

\* the arguments of a call reach a target whose parameters have their decayed types
SameDecayedTypes(target, rhs) ==
    /\ Len(target.args) = Len(rhs.args)
    /\ \A i \in 1..Len(target.args) : decay_t(target.args[i]) = decay_t(rhs.args[i])

\* operator()(Args&&... args): _wrapper(invokedFunction, true), then the proxy
\* it returns is called through a cast to Ret(*)(const Delegate*, Args&&...);
\* with arguments of other types than the target's that call is undefined
RevisedCall(shape) ==
    /\ Running
    /\ variant = "revised"
    /\ LET invoked == InvokedFunction(DynamicRet, shape) IN
       IF stub = throwBadCall
       THEN last' = Operation("call", shape, 0, "BadDelegateCall", "threw", <<>>, NoValue)
       ELSE IF ~isCompatibleWith(RevisedSignature(stub.T), invoked)
       THEN last' = Operation("call", shape, 0, "BadDelegateArguments", "threw", <<>>, NoValue)
       ELSE \/ last' = Operation("call", shape, 0, "none", "returned",
                                  <<Invocation(Callee(storage.val, "none"), shape)>>, NoValue)
            \/ /\ ~SameDecayedTypes(RevisedSignature(stub.T), invoked)
               /\ last' = Operation("call", shape, 0, "none", "crashed", <<>>, NoValue)
    /\ UNCHANGED <<variant, stub, storage, legacy, z, bound, copy, build, threads>>

\* isInvokable<Args...>() noexcept: _wrapper(invokedFunction, false) != nullptr
RevisedIsInvokable(shape) ==
    /\ Running
    /\ variant = "revised"
    /\ last' = IF stub = throwBadCall
               THEN Operation("isInvokable", shape, 0, "BadDelegateCall", "terminate", <<>>, NoValue)
               ELSE Operation("isInvokable", shape, 0, "none", "returned", <<>>,
                              IF isCompatibleWith(RevisedSignature(stub.T),
                                                  InvokedFunction(DynamicRet, shape))
                              THEN 1 ELSE 0)
    /\ UNCHANGED <<variant, stub, storage, legacy, z, bound, copy, build, threads>>

(***************************************************************************)
(* The single-signature-commit class Delegate                              *)
(***************************************************************************)
HASH_DEFAULT_PRIME_NUMBER == 73

\* hash(prime, s, len): (len <= 1) ? s[0] : prime * hash(prime, s, len - 1) + s[len - 1]
RECURSIVE legacyHashRec(_, _, _)
legacyHashRec(prime, s, len) ==
    IF len <= 1 THEN UInt32(0, s[1])
    ELSE LET inner == legacyHashRec(prime, s, len - 1) IN
         \* the inner call returns a std::uint32_t
         IF inner[1] >= Half THEN inner ELSE MulAdd(prime, inner, s[len])

\* hash(prime, string_view s): hash(prime, s.data(), s.size() - 1)
legacyHashView(prime, s) == legacyHashRec(prime, s, Len(s) - 1)

\* hash(string_view s)
legacyHash(s) == legacyHashView(HASH_DEFAULT_PRIME_NUMBER, s)

\* hashFunctionSignature<Ret, Args...>(): F = Ret (*)(Args...)
hashFunctionSignature(f) ==
    legacyHash(typeName(FunctionPointerText(f.ret,
                            [i \in 1..Len(f.args) |-> TypeText(f.args[i])])))

LegacyHashTable == {<<f, hashFunctionSignature(f)>> : f \in DecayedFunctionTypes}

\* hashFunctionSignature<Ret, std::decay_t<Args>...>()
sigHash(f) ==
    ConstantOf(LegacyHashTable,
               FunctionType(f.ret, [i \in 1..Len(f.args) |-> decay_t(f.args[i])]))

LegacyFunctions == {"f0", "f3", "fi", "gi"}
LegacyPointerTypes == {PointerTypeOf(f) : f \in LegacyFunctions}

LegacyDelegate(functor, handle, hashedSignature) ==
    [functor |-> functor, handle |-> handle, hashedSignature |-> hashedSignature]

\* assign(Ret (*function)(Args...)) on the fields d; t is the type of `function`
assign(d, function, t) ==
    IF function # "null" /\ sigHash(PointerTypeSignature(t)) = d.hashedSignature
    THEN LegacyDelegate(t, function, d.hashedSignature)
    ELSE d

\* Delegate(Ret (*function)(Args...)): the hash of the signature, then assign
LegacyConstruct(function, t) ==
    assign(LegacyDelegate("null", "null", sigHash(PointerTypeSignature(t))), function, t)

LegacyAssign(function, t) ==
    /\ Running
    /\ variant = "legacy"
    /\ legacy' = assign(legacy, function, t)
    /\ last' = Operation("assign", <<function, t>>, 0, "none", "returned", <<>>, NoValue)
    /\ UNCHANGED <<variant, stub, storage, z, bound, copy, build, threads>>

\* d = function: a Delegate is constructed from the function by the
\* converting constructor and assigned member by member (the class declares
\* no operator=)
LegacyAssignDelegate(function, t) ==
    /\ Running
    /\ variant = "legacy"
    /\ legacy' = LegacyConstruct(function, t)
    /\ last' = Operation("operator=", <<function, t>>, 0, "none", "returned", <<>>, NoValue)
    /\ UNCHANGED <<variant, stub, storage, z, bound, copy, build, threads>>

\* operator()<Ret>(Args&&... args)
LegacyCall(ret, shape) ==
    /\ Running
    /\ variant = "legacy"
    /\ LET callee == Callee(legacy.handle, "none") IN
       IF legacy.handle = "null"
       THEN /\ last' = Operation("call", shape, 0, "bad_function_call", "threw", <<>>, NoValue)
            /\ z' = z
       ELSE IF sigHash(InvokedFunction(ret, shape)) # legacy.hashedSignature
       THEN /\ last' = Operation("call", shape, 0, "BadDelegateArguments", "threw", <<>>, NoValue)
            /\ z' = z
       ELSE /\ last' = Operation("call", shape, 0, "none", "returned",
                                 <<Invocation(callee, ArgValues(shape, z))>>,
                                 IF ret = "int" THEN 1 + ArgValues(shape, z)[1] ELSE NoValue)
            /\ z' = ZAfter(callee, shape, z)
    /\ UNCHANGED <<variant, stub, storage, legacy, bound, copy, build, threads>>

(***************************************************************************)
(* The program                                                             *)
(***************************************************************************)
Constructed == Operation("construct", <<>>, 0, "none", "returned", <<>>, NoValue)

\* Delegate<> s: a default-constructed second delegate
DefaultConstructed == [stub |-> throwBadCall, storage |-> ZeroStorage, bound |-> NoCallee]

Init ==
    /\ variant \in {"fixed", "dynamic", "legacy"}
    /\ copy = DefaultConstructed
    /\ build = DefaultBuild
    /\ threads = Idle
    /\ stub = throwBadCall
    /\ storage = ZeroStorage
    /\ z \in 0..MaxVal
    /\ last = Constructed
    /\ bound = NoCallee
    /\ IF variant = "legacy"
       THEN \E t \in LegacyPointerTypes :
                \E f \in {g \in LegacyFunctions : PointerTypeOf(g) = t} \cup {"null"} :
                    legacy = LegacyConstruct(f, t)
       ELSE legacy = LegacyDelegate("null", "null", UInt32(0, 0))

Next ==
    \/ \E f \in FreeFunctions(variant) : BindFunction(f)
    \/ \E i \in Instances : BindMemberFunction(i)
    \/ \E i \in Instances : BindConstMemberFunction(i)
    \/ \E o \in Objects : BindCallableView(o)
    \/ \E o \in Objects : BindConstCallableView(o)
    \/ \E F \in EmptyCallables(variant) : BindEmptyCallable(F)
    \/ \E k \in Captures : BindStatefulCallable(k)
    \/ \E f \in FreeFunctions(variant) : BindFunctionPointer(f)
    \/ Reset
    \/ \E x \in 0..MaxVal : FixedCall(x)
    \/ \E shape \in CallShapes : DynamicCall(shape)
    \/ \E shape \in CallShapes : IsInvokable(shape)
    \/ \E q \in Queries(variant) : HasTargetQuery(q)
    \/ \E t \in LegacyPointerTypes :
            \E f \in {g \in LegacyFunctions : PointerTypeOf(g) = t} \cup {"null"} :
                LegacyAssign(f, t)
    \/ \E f \in LegacyFunctions : LegacyAssignDelegate(f, PointerTypeOf(f))
    \/ \E ret \in {"void", "int"}, shape \in CallShapes : LegacyCall(ret, shape)

Spec == Init /\ [][Next]_vars

(***************************************************************************)
(* The program of main.cpp that binds closures over its own variable to a  *)
(* Delegate<int(int)>, calls it and assigns the variable in between        *)
(***************************************************************************)
InitClosure ==
    /\ variant = "fixed"
    /\ stub = throwBadCall
    /\ storage = ZeroStorage
    /\ z \in 0..MaxVal
    /\ last = Constructed
    /\ bound = NoCallee
    /\ legacy = LegacyDelegate("null", "null", UInt32(0, 0))
    /\ copy = DefaultConstructed
    /\ build = DefaultBuild
    /\ threads = Idle

NextClosure ==
    \/ \E F \in ZClosures : BindClosure(F)
    \/ \E f \in FreeFunctions(variant) : BindFunction(f)
    \/ \E v \in 0..MaxVal : CallerWritesZ(v)
    \/ \E x \in 0..MaxVal : FixedCall(x)
    \/ Reset

SpecClosure == InitClosure /\ [][NextClosure]_vars

(***************************************************************************)
(* Overload resolution of Delegate<void(int)> d { F {} } over the          *)
(* constructors that take the callable itself, for the types F that the    *)
(* traits tell apart                                                       *)
(***************************************************************************)
\* the properties of F the gates test; pointer: F is R(*)(Args...), else F is
\* a class with one operator()
CallableType(pointer, empty, defaultConstructible, assignable, trivCopy, trivDtor,
             uniqueRep, convertible, invocable) ==
    [pointer |-> pointer, empty |-> empty, defaultConstructible |-> defaultConstructible,
     assignable |-> assignable, trivCopy |-> trivCopy, trivDtor |-> trivDtor,
     uniqueRep |-> uniqueRep, convertible |-> convertible, invocable |-> invocable,
     size |-> IF empty THEN 1 ELSE PointerWidth, align |-> IF empty THEN 1 ELSE PointerWidth]

\* a pointer to function is a scalar; an empty class has a padding byte, so no
\* unique object representation; a unique representation requires a
\* trivially copyable type
CallableTypes ==
    {F \in {CallableType(p, e, d, a, c, t, u, v, i) :
                p \in BOOLEAN, e \in BOOLEAN, d \in BOOLEAN, a \in BOOLEAN, c \in BOOLEAN,
                t \in BOOLEAN, u \in BOOLEAN, v \in BOOLEAN, i \in BOOLEAN} :
        /\ F.pointer => (~F.empty /\ F.defaultConstructible /\ F.assignable /\ F.trivCopy
                          /\ F.trivDtor /\ F.uniqueRep /\ F.convertible)
        /\ F.empty => ~F.uniqueRep
        /\ F.uniqueRep => F.trivCopy}

\* traits::is_likely_lambda_v<F>: is_object_v<F> removes the pointer first and
\* is false for a pointer to function; a class with operator() is callable and
\* constructible from itself
is_likely_lambda_v(F) ==
    ~F.pointer /\ ~F.uniqueRep /\ ~F.assignable /\ F.trivDtor /\ F.trivCopy

\* traits::is_likely_captureless_lambda_v<F>
is_likely_captureless_lambda_v(F) == F.empty /\ is_likely_lambda_v(F) /\ F.convertible

\* traits::is_likely_capturing_lambda_v<F>
is_likely_capturing_lambda_v(F) == ~F.empty /\ is_likely_lambda_v(F) /\ ~F.convertible

\* the enable_if of Delegate(F&&) for an empty default-constructible callable
is_empty_callable(F) == F.empty /\ F.defaultConstructible /\ F.invocable

ConstructorOverloads ==
    <<"executeStatelessCallable", "executeEmptyCallable", "retrospective_cast",
      "executeStatefulCallable">>

\* whether the constructor that installs the stub is a candidate for F
ConstructorEnabled(overload, b) ==
    CASE overload = "executeStatelessCallable" -> b.F.pointer /\ b.F.invocable
      [] overload = "executeEmptyCallable" -> is_empty_callable(b.F)
      [] overload = "retrospective_cast" -> is_likely_captureless_lambda_v(b.F)
      [] OTHER -> /\ is_likely_capturing_lambda_v(b.F) /\ is_storable(b, b.F) /\ b.F.invocable

ViableConstructors(b) ==
    SelectSeq(ConstructorOverloads, LAMBDA o : ConstructorEnabled(o, b))

\* Delegate<void(int)> d { F {} }: one candidate is selected, several are an
\* ambiguous call, none is no matching constructor
ConstructFrom ==
    /\ Running
    /\ LET viable == ViableConstructors(build) IN
       /\ last' = Operation("construct", viable, 0, "none",
                            IF Len(viable) = 1 THEN "returned" ELSE "ill-formed",
                            <<>>, NoValue)
       /\ stub' = IF Len(viable) # 1 THEN stub
                  ELSE IF viable[1] = "retrospective_cast"
                       THEN Stub("executeStatelessCallable", "F", FALSE)
                       ELSE Stub(viable[1], "F", FALSE)
       /\ bound' = IF Len(viable) = 1 THEN Callee("F", "none") ELSE bound
    /\ UNCHANGED <<variant, storage, legacy, z, copy, build, threads>>

InitClassify ==
    /\ variant = "fixed"
    /\ stub = throwBadCall
    /\ storage = ZeroStorage
    /\ z = 0
    /\ last = Constructed
    /\ bound = NoCallee
    /\ legacy = LegacyDelegate("null", "null", UInt32(0, 0))
    /\ copy = DefaultConstructed
    /\ \E F \in CallableTypes : build = Build(PointerWidth, PointerWidth, F)
    /\ threads = Idle

NextClassify ==
    \/ ConstructFrom
    \/ Reset

SpecClassify == InitClassify /\ [][NextClassify]_vars

(***************************************************************************)
(* Programs that ask MetaFunction<void, Args...> for its arguments         *)
(***************************************************************************)
\* FunctionArgument::fromConcreteArg<Arg>(): the braces call the constructor
\* (isConst, isVolatile, isLValue, isRValue) with is_const_v, is_volatile_v,
\* is_rvalue_reference_v, is_lvalue_reference_v, in this order; a reference
\* type is never const
fromConcreteArg(Arg) ==
    FunctionArgument(Arg.const /\ Arg.ref = "val", FALSE, Arg.ref = "rref", Arg.ref = "lref")

\* the cases of the switch of MetaFunction::nthArgument
MaxSwitchIndex == 5

\* MetaFunction<R, Args...>::nthArgument(index)
MetaFunctionNthArgument(f, index) ==
    IF index <= MaxSwitchIndex /\ index < Len(f.args)
    THEN fromConcreteArg(f.args[index + 1])
    ELSE FunctionArgument(FALSE, FALSE, FALSE, FALSE)

ReflectedKinds == {"int", "const int", "int&", "const int&", "int&&", "const int&&"}

ReflectedShapes ==
    {<<>>} \cup {<<a>> : a \in ReflectedKinds} \cup {<<a, b>> : a, b \in ReflectedKinds}

\* MetaFunction<void, Args...> {}.nthArgument(index); shape is Args
NthArgument(index) ==
    /\ Running
    /\ variant = "reflect"
    /\ last' = Operation("nthArgument", last.shape, index, "none", "returned", <<>>,
                         MetaFunctionNthArgument(InvokedFunction(DynamicRet, last.shape), index))
    /\ UNCHANGED <<variant, stub, storage, legacy, z, bound, copy, build, threads>>

InitReflect ==
    /\ variant = "reflect"
    /\ stub = throwBadCall
    /\ storage = ZeroStorage
    /\ z = 0
    /\ \E shape \in ReflectedShapes :
          last = Operation("construct", shape, 0, "none", "returned", <<>>, NoValue)
    /\ bound = NoCallee
    /\ legacy = LegacyDelegate("null", "null", UInt32(0, 0))
    /\ copy = DefaultConstructed
    /\ build = DefaultBuild
    /\ threads = Idle

NextReflect ==
    \/ \E index \in 0..2 : NthArgument(index)

SpecReflect == InitReflect /\ [][NextReflect]_vars

(***************************************************************************)
(* Programs that bind a std::function<R2(UArgs...)> to a delegate          *)
(***************************************************************************)
\* sizeof(std::function<R2(UArgs...)>): two pointers of storage, the manager
\* and the invoker
SizeofStdFunction == 4 * PointerWidth

\* the closure [f = DELEGATE_FWD(target)](UArgs&&... args) -> R2: it holds a
\* std::function, so it is neither trivially destructible nor trivially copyable
StdFunctionClosure ==
    ClosureType(SizeofStdFunction, PointerWidth, FALSE, FALSE, FALSE, TRUE)

\* the body of bind(std::function&&) is instantiated with
\* static_assert(sizeof(target) <= sizeof(_storage)) and with
\* *this = [f = DELEGATE_FWD(target)](UArgs&&... args) -> R2 { ... },
\* which needs an operator= that takes the closure
BindStdFunctionInstantiates(b) ==
    /\ SizeofStdFunction <= BufferSize(b.StorageSize)
    /\ BindClosureEnabled(Build(b.StorageSize, b.Alignment, StdFunctionClosure))

\* what std::function<R2(UArgs...)> { f } or std::function<R2(UArgs...)> {} holds
WrappedFunctions(v) == FreeFunctions(v) \cup {"empty"}

\* target.template target<Target>(): a pointer to the function pointer that
\* the std::function holds, null when it holds none
TargetSlot(wrapped) == IF wrapped = "empty" THEN "null" ELSE "&" \o wrapped

\* bind(std::function<R2(UArgs...)>&& target), also reached from the
\* constructor and operator= that take a std::function:
\* _function = target.target<Target>(); _proxy = &executeStatelessCallable<R2, UArgs...>;
\* if (!target) _proxy = &throwBadCall
BindStdFunction(wrapped) ==
    /\ Running
    /\ variant \in {"fixed", "dynamic"}
    /\ IF BindStdFunctionInstantiates(build)
       THEN /\ storage' = Storage("_function", TargetSlot(wrapped))
            /\ stub' = IF wrapped = "empty" THEN throwBadCall
                       ELSE Stub("executeStatelessCallable", PointerTypeOf(wrapped), FALSE)
            /\ bound' = IF wrapped = "empty" THEN NoCallee ELSE Callee(wrapped, "none")
            /\ last' = Operation("bind", <<"std::function", wrapped>>, 0, "none", "returned",
                                 <<>>, NoValue)
       ELSE /\ last' = Operation("bind", <<"std::function", wrapped>>, 0, "none", "ill-formed",
                                 <<>>, NoValue)
            /\ UNCHANGED <<stub, storage, bound>>
    /\ UNCHANGED <<variant, legacy, z, copy, build, threads>>

InitStdFunction ==
    /\ variant \in {"fixed", "dynamic"}
    /\ stub = throwBadCall
    /\ storage = ZeroStorage
    /\ z = 0
    /\ last = Constructed
    /\ bound = NoCallee
    /\ legacy = LegacyDelegate("null", "null", UInt32(0, 0))
    /\ copy = DefaultConstructed
    /\ \E s \in {PointerWidth, SizeofStdFunction, 2 * SizeofStdFunction} :
          build = Build(s, PointerWidth, DefaultBuild.F)
    /\ threads = Idle

NextStdFunction ==
    \/ \E f \in FreeFunctions(variant) : BindFunctionPointer(f)
    \/ \E w \in WrappedFunctions(variant) : BindStdFunction(w)
    \/ Reset
    \/ \E x \in 0..MaxVal : FixedCall(x)
    \/ \E shape \in CallShapes : DynamicCall(shape)
    \/ \E q \in Queries(variant) : HasTargetQuery(q)

SpecStdFunction == InitStdFunction /\ [][NextStdFunction]_vars

(***************************************************************************)
(* Programs that hash a text with a prime                                  *)
(***************************************************************************)
\* 'a' and 'z'
HashAlphabet == {97, 122}

RECURSIVE HashTextsOfLength(_)
HashTextsOfLength(n) ==
    IF n = 0 THEN {<<>>}
    ELSE {Append(t, c) : t \in HashTextsOfLength(n - 1), c \in HashAlphabet}

HashTexts == UNION {HashTextsOfLength(n) : n \in 0..MaxHashLen}

HashPrimes == {defaultPrimeNumber, HASH_DEFAULT_PRIME_NUMBER}

\* an overload of detail::hash applied to the text and the prime at hand;
\* shape is the text, x the prime, invoked the length passed
Hashed(overload, len, h) ==
    /\ Running
    /\ variant = "hash"
    /\ last' = Operation(overload, last.shape, last.x, "none", "returned", <<len>>, h)
    /\ UNCHANGED <<variant, stub, storage, legacy, z, bound, copy, build, threads>>

\* hash<N>(prime, s, len) on the array of the characters of the text
HashArray(len) ==
    /\ len <= Len(last.shape)
    /\ Hashed("hashArray", len, hashArray(last.x, last.shape, len))

\* hash(prime, s.data(), len)
HashPointer(len) ==
    /\ len <= Len(last.shape)
    /\ Hashed("hashPointer", len, hashPtr(last.x, last.shape, len))

\* hash(prime, std::string_view { s })
HashView == Hashed("hashView", Len(last.shape), hashView(last.x, last.shape))

\* hash(std::string_view { s })
HashDefault == Hashed("hash", Len(last.shape), hash(last.shape))

InitHash ==
    /\ variant = "hash"
    /\ stub = throwBadCall
    /\ storage = ZeroStorage
    /\ z = 0
    /\ \E s \in HashTexts, prime \in HashPrimes :
          last = Operation("construct", s, prime, "none", "returned", <<>>, NoValue)
    /\ bound = NoCallee
    /\ legacy = LegacyDelegate("null", "null", UInt32(0, 0))
    /\ copy = DefaultConstructed
    /\ build = DefaultBuild
    /\ threads = Idle

NextHash ==
    \/ \E len \in 0..MaxHashLen : HashArray(len)
    \/ \E len \in 0..MaxHashLen : HashPointer(len)
    \/ HashView
    \/ HashDefault

SpecHash == InitHash /\ [][NextHash]_vars

(***************************************************************************)
(* Programs that hand a text to the functions over signature texts         *)
(***************************************************************************)
\* '<', '>', ',' and 'a'
TextAlphabet == {Head(TxtAngleOpen), Head(TxtAngleClose), Head(TxtComma), 97}

RECURSIVE TextsOfLength(_)
TextsOfLength(n) ==
    IF n = 0 THEN {<<>>}
    ELSE {Append(t, c) : t \in TextsOfLength(n - 1), c \in TextAlphabet}

Texts == UNION {TextsOfLength(n) : n \in 0..MaxTextLen}

\* prettifyName(s): with '>' at index 0 the loop starts at i = end - 1, which
\* wraps to the largest std::size_t, and s[i] is read outside the text; the
\* function is noexcept
PrettifyName ==
    /\ Running
    /\ variant = "text"
    /\ LET s == last.shape IN
       IF find_last_of(s, Head(TxtAngleClose)) = 0
       THEN \E outcome \in {"crashed", "terminate"} :
               last' = Operation("prettifyName", s, 0, "none", outcome, <<>>, NoValue)
       ELSE last' = Operation("prettifyName", s, 0, "none", "returned",
                              prettifyName(s), Len(prettifyName(s)))
    /\ UNCHANGED <<variant, stub, storage, legacy, z, bound, copy, build, threads>>

\* the texts a second signature is extracted from
OtherTexts == {<<>>} \cup {<<c>> : c \in TextAlphabet}

\* FunctionSignature::operator==: _representation == rhs._representation
SignatureEquals(lhs, rhs) == lhs = rhs

\* FunctionSignature { prettifyName(s) } == FunctionSignature { prettifyName(other) }
CompareSignatures(other) ==
    /\ Running
    /\ variant = "text"
    /\ find_last_of(last.shape, Head(TxtAngleClose)) # 0
    /\ find_last_of(other, Head(TxtAngleClose)) # 0
    /\ LET lhs == prettifyName(last.shape)
           rhs == prettifyName(other)
       IN last' = Operation("operator==", last.shape, 0, "none", "returned",
                            <<lhs, rhs, other>>, IF SignatureEquals(lhs, rhs) THEN 1 ELSE 0)
    /\ UNCHANGED <<variant, stub, storage, legacy, z, bound, copy, build, threads>>

\* the gate of the dynamic call on the two signatures:
\* hash(prettifyName(s)) == hash(prettifyName(other))
CompareHashes(other) ==
    /\ Running
    /\ variant = "text"
    /\ find_last_of(last.shape, Head(TxtAngleClose)) # 0
    /\ find_last_of(other, Head(TxtAngleClose)) # 0
    /\ LET lhs == prettifyName(last.shape)
           rhs == prettifyName(other)
       IN last' = Operation("hash==", last.shape, 0, "none", "returned",
                            <<lhs, rhs, other>>, IF hash(lhs) = hash(rhs) THEN 1 ELSE 0)
    /\ UNCHANGED <<variant, stub, storage, legacy, z, bound, copy, build, threads>>

\* FunctionSignature { s }.numberOfArguments(): separators = 0, offset = 0
NumberOfArguments ==
    /\ Running
    /\ variant = "text"
    /\ last' = Operation("numberOfArguments", last.shape, 0, "none", "running", <<>>, 0)
    /\ UNCHANGED <<variant, stub, storage, legacy, z, bound, copy, build, threads>>

\* one test of `offset != npos` and, when it holds, one run of the body:
\* offset = find(',', offset), and separators += 1 when a comma was found;
\* x is offset, value is separators
NumberOfArgumentsLoop ==
    /\ last.op = "numberOfArguments"
    /\ last.end = "running"
    /\ IF last.x = npos
       THEN last' = Operation("numberOfArguments", last.shape, last.x, "none", "returned",
                              <<>>, last.value)
       ELSE LET offset == find(last.shape, TxtComma, last.x) IN
            last' = Operation("numberOfArguments", last.shape, offset, "none", "running", <<>>,
                              IF offset # npos THEN (last.value + 1) % SizeModulus
                              ELSE last.value)
    /\ UNCHANGED <<variant, stub, storage, legacy, z, bound, copy, build, threads>>

InitText ==
    /\ variant = "text"
    /\ stub = throwBadCall
    /\ storage = ZeroStorage
    /\ z = 0
    /\ \E s \in Texts : last = Operation("construct", s, 0, "none", "returned", <<>>, NoValue)
    /\ bound = NoCallee
    /\ legacy = LegacyDelegate("null", "null", UInt32(0, 0))
    /\ copy = DefaultConstructed
    /\ build = DefaultBuild
    /\ threads = Idle

NextText ==
    \/ PrettifyName
    \/ \E other \in OtherTexts : CompareSignatures(other)
    \/ \E other \in OtherTexts : CompareHashes(other)

SpecText == InitText /\ [][NextText]_vars

\* the program that counts the arguments of a signature text
NextCount ==
    \/ NumberOfArguments
    \/ NumberOfArgumentsLoop

\* a loop that can run does run
SpecCount == InitText /\ [][NextCount]_vars /\ WF_vars(NumberOfArgumentsLoop)

(***************************************************************************)
(* The program that binds functions to the revised dynamic delegate and    *)
(* calls it with arguments of several types                                *)
(***************************************************************************)
InitRevised ==
    /\ variant = "revised"
    /\ stub = throwBadCall
    /\ storage = ZeroStorage
    /\ z = 0
    /\ last = Constructed
    /\ bound = NoCallee
    /\ legacy = LegacyDelegate("null", "null", UInt32(0, 0))
    /\ copy = DefaultConstructed
    /\ build = DefaultBuild
    /\ threads = Idle

NextRevised ==
    \/ \E f \in RevisedTargets : RevisedBind(f)
    \/ RevisedReset
    \/ \E shape \in RevisedCallShapes : RevisedCall(shape)
    \/ \E shape \in RevisedCallShapes : RevisedIsInvokable(shape)

SpecRevised == InitRevised /\ [][NextRevised]_vars

(***************************************************************************)
(* Programs that bind a closure of type F to Delegate<int(int),            *)
(* StorageSize, Alignment>: the program is ill-formed when no overload of  *)
(* bind applies, and then nothing of it ever runs                          *)
(***************************************************************************)
StorageSizes == {1, 8, 16, 24}
Alignments == {4, 8, 16}
ClosureSizes == {8, 16, 24}
ClosureAlignments == {8, 16}

\* sizeof(F) is a multiple of alignof(F)
ClosureTypes ==
    {F \in {ClosureType(s, a, u, d, c, i) :
                s \in ClosureSizes, a \in ClosureAlignments,
                u \in BOOLEAN, d \in BOOLEAN, c \in BOOLEAN, i \in BOOLEAN} :
        F.size % F.align = 0}

InitStorable ==
    /\ variant = "fixed"
    /\ stub = throwBadCall
    /\ storage = ZeroStorage
    /\ z = 0
    /\ last = Constructed
    /\ bound = NoCallee
    /\ legacy = LegacyDelegate("null", "null", UInt32(0, 0))
    /\ copy = DefaultConstructed
    /\ threads = Idle
    /\ \E S \in StorageSizes, A \in Alignments, F \in ClosureTypes : build = Build(S, A, F)

\* d.bind(F { capture }) where the overload set of bind decides
BindCandidate(capture) ==
    IF BindClosureEnabled(build)
    THEN BindStatefulCallable(capture)
    ELSE /\ Running
         /\ last' = Operation("bind", <<>>, 0, "none", "ill-formed", <<>>, NoValue)
         /\ UNCHANGED <<variant, stub, storage, legacy, z, bound, copy, build, threads>>

\* sizeof(d)
Sizeof ==
    /\ Running
    /\ last' = Operation("sizeof", <<>>, 0, "none", "returned", <<>>, SizeofDelegate(build))
    /\ UNCHANGED <<variant, stub, storage, legacy, z, bound, copy, build, threads>>

NextStorable ==
    \/ \E k \in Captures : BindCandidate(k)
    \/ Sizeof
    \/ \E x \in 0..MaxVal : FixedCall(x)
    \/ Reset

SpecStorable == InitStorable /\ [][NextStorable]_vars

(***************************************************************************)
(* Programs that instantiate Delegate<Ret(Args...), StorageSize, Alignment>*)
(* or Delegate<Ret(...), StorageSize, Alignment> for every StorageSize up  *)
(* to three pointers and ask for their size                                *)
(***************************************************************************)
ConfiguredStorageSizes == 0..(3 * PointerWidth)

InitBuffer ==
    /\ variant \in {"fixed", "dynamic"}
    /\ stub = throwBadCall
    /\ storage = ZeroStorage
    /\ z = 0
    /\ last = Constructed
    /\ bound = NoCallee
    /\ legacy = LegacyDelegate("null", "null", UInt32(0, 0))
    /\ copy = DefaultConstructed
    /\ \E s \in ConfiguredStorageSizes, a \in Alignments : build = Build(s, a, DefaultBuild.F)
    /\ threads = Idle

NextBuffer ==
    \/ Sizeof
    \/ Reset

SpecBuffer == InitBuffer /\ [][NextBuffer]_vars

(***************************************************************************)
(* Two threads share one Delegate<int(int)>: one binds and resets it, the  *)
(* other calls it.  A bind that writes the union and _proxy makes two      *)
(* stores, in the order of its statements; the threads either take one     *)
(* lock around every operation or take none.  A call that runs between the *)
(* two stores races with the bind: it may run the stub it loaded on the    *)
(* bytes it finds, or crash.                                               *)
(***************************************************************************)
InitThreads ==
    /\ variant = "fixed"
    /\ stub = throwBadCall
    /\ storage = ZeroStorage
    /\ z = 0
    /\ last = Constructed
    /\ bound = NoCallee
    /\ legacy = LegacyDelegate("null", "null", UInt32(0, 0))
    /\ copy = DefaultConstructed
    /\ build = DefaultBuild
    /\ \E locking \in BOOLEAN : threads = [locking |-> locking, pending |-> <<>>]

\* the first store of a bind that makes two
FirstStore(newStub, newStorage, pending) ==
    /\ Running
    /\ threads.pending = <<>>
    /\ stub' = newStub
    /\ storage' = newStorage
    /\ threads' = [threads EXCEPT !.pending = pending]
    /\ last' = Operation("store", <<>>, 0, "none", "returned", <<>>, NoValue)
    /\ UNCHANGED <<variant, legacy, z, bound, copy, build>>

\* bind<Target>(T* instance): _instance = instance; then _proxy = &executeMemberFunction<T, Target>
BeginBindMemberFunction(instance) ==
    FirstStore(stub, Storage("_instance", instance),
               <<"_proxy", Stub("executeMemberFunction", MemberFunction(variant), FALSE),
                 Callee(MemberFunction(variant), instance)>>)

\* bind(F&& target): _proxy = &executeStatefulCallable<F>; then new (_storage) F(target)
BeginBindStatefulCallable(capture) ==
    FirstStore(Stub("executeStatefulCallable", Closure(variant), FALSE), storage,
               <<"_storage", Storage("_storage", capture), Callee(Closure(variant), capture)>>)

\* the second store of the bind in progress
FinishBind ==
    /\ Running
    /\ threads.pending # <<>>
    /\ stub' = IF threads.pending[1] = "_proxy" THEN threads.pending[2] ELSE stub
    /\ storage' = IF threads.pending[1] = "_storage" THEN threads.pending[2] ELSE storage
    /\ bound' = threads.pending[3]
    /\ threads' = [threads EXCEPT !.pending = <<>>]
    /\ last' = Operation("bind", <<>>, 0, "none", "returned", <<>>, NoValue)
    /\ UNCHANGED <<variant, legacy, z, copy, build>>

\* bind<Target>() and reset() make one store
ThreadBindFunction(f) == threads.pending = <<>> /\ BindFunction(f)
ThreadReset == threads.pending = <<>> /\ Reset

\* not the code's: a caller that does not take the lock the binder holds
ThreadCallUnlocked(x) ==
    \/ FixedCall(x)
    \/ /\ Running
       /\ threads.pending # <<>>
       /\ last' = Operation("call", <<>>, x, "none", "crashed", <<>>, NoValue)
       /\ UNCHANGED <<variant, stub, storage, legacy, z, bound, copy, build, threads>>

\* operator() on the calling thread: with the lock it waits for the bind in
\* progress, without it it runs at once
ThreadCall(x) ==
    /\ threads.locking => threads.pending = <<>>
    /\ \/ FixedCall(x)
       \/ /\ Running
          /\ threads.pending # <<>>
          /\ last' = Operation("call", <<>>, x, "none", "crashed", <<>>, NoValue)
          /\ UNCHANGED <<variant, stub, storage, legacy, z, bound, copy, build, threads>>

NextThreads ==
    \/ \E i \in Instances : BeginBindMemberFunction(i)
    \/ \E k \in Captures : BeginBindStatefulCallable(k)
    \/ FinishBind
    \/ \E f \in FreeFunctions(variant) : ThreadBindFunction(f)
    \/ ThreadReset
    \/ \E x \in 0..MaxVal : ThreadCall(x)

SpecThreads == InitThreads /\ [][NextThreads]_vars

(***************************************************************************)
(* Two Delegate<int(int)> objects: the second is copy- or move-constructed *)
(* or assigned from the first (the implicit, member-wise members: the      *)
(* class declares none), and both are bound, reset and called afterwards   *)
(***************************************************************************)
\* not the code's: a copy that takes the stub and leaves the storage behind
CopyStubOnly(how) ==
    /\ Running
    /\ copy' = [stub |-> stub, storage |-> copy.storage, bound |-> bound]
    /\ last' = Operation(how, <<>>, 0, "none", "returned", <<>>, NoValue)
    /\ UNCHANGED <<variant, stub, storage, legacy, z, bound, build, threads>>

\* Delegate(const Delegate&), Delegate(Delegate&&) and the two operator=:
\* the union and _proxy are copied, the source is left as it was
CopyDelegate(how) ==
    /\ Running
    /\ copy' = [stub |-> stub, storage |-> storage, bound |-> bound]
    /\ last' = Operation(how, <<>>, 0, "none", "returned", <<>>, NoValue)
    /\ UNCHANGED <<variant, stub, storage, legacy, z, bound, build, threads>>

\* bind and reset on the second object
CopyBound(op, newStub, newStorage, callee) ==
    /\ Running
    /\ copy' = [stub |-> newStub, storage |-> newStorage, bound |-> callee]
    /\ last' = Operation(op, <<>>, 0, "none", "returned", <<>>, NoValue)
    /\ UNCHANGED <<variant, stub, storage, legacy, z, bound, build, threads>>

CopyReset == CopyBound("copy.reset", throwBadCall, copy.storage, NoCallee)

CopyBindFunction(f) ==
    CopyBound("copy.bind", Stub("executeFunction", f, FALSE), copy.storage, Callee(f, "none"))

CopyBindClosure(F) ==
    CopyBound("copy.bind", Stub("executeStatefulCallable", F, FALSE),
              Storage("_storage", CaptureBytes(F, z)), Callee(F, CaptureBytes(F, z)))

\* operator() on the second object
CopyCall(x) ==
    /\ Running
    /\ last' = IF copy.stub.kind = "throwBadCall"
               THEN Operation("copy.call", <<>>, x, "BadDelegateCall", "threw", <<>>, NoValue)
               ELSE LET callee == StubCallee(copy.stub, copy.storage) IN
                    Operation("copy.call", <<>>, x, "none", "returned",
                              <<Invocation(callee, <<x>>)>>, TargetCall(callee, x, z).value)
    /\ z' = IF copy.stub.kind = "throwBadCall" THEN z
            ELSE TargetCall(StubCallee(copy.stub, copy.storage), x, z).z
    /\ UNCHANGED <<variant, stub, storage, legacy, bound, copy, build, threads>>

NextCopy ==
    \/ \E F \in ZClosures : BindClosure(F)
    \/ \E f \in FreeFunctions(variant) : BindFunction(f)
    \/ \E i \in Instances : BindMemberFunction(i)
    \/ Reset
    \/ \E x \in 0..MaxVal : FixedCall(x)
    \/ \E how \in {"copy", "move"} : CopyDelegate(how)
    \/ \E F \in ZClosures : CopyBindClosure(F)
    \/ \E f \in FreeFunctions(variant) : CopyBindFunction(f)
    \/ CopyReset
    \/ \E x \in 0..MaxVal : CopyCall(x)

SpecCopy == InitClosure /\ [][NextCopy]_vars

(***************************************************************************)
(* Properties                                                              *)
(***************************************************************************)
\* the error a call raises when the delegate holds no target
UnboundError ==
    IF variant = "legacy" THEN "bad_function_call" ELSE "BadDelegateCall"

\* the delegate holds no target
NoTarget ==
    IF variant = "legacy" THEN legacy.handle = "null" ELSE ~hasTarget

\* C1: a call on a delegate that holds no target raises the unbound-call error
\* (std::bad_function_call in the single-signature class), whatever the
\* arguments, never the signature-mismatch error, and invokes nothing.
C1_UnboundCallRaisesUnboundError ==
    [][(last'.op = "call" /\ NoTarget)
         => /\ last'.raised = UnboundError
            /\ last'.end = "threw"
            /\ last'.invoked = <<>>]_vars

\* a dynamic delegate, bound and then reset, was called with three arguments
C1_Witness ==
    /\ variant = "dynamic"
    /\ stub = throwBadCall
    /\ storage # ZeroStorage
    /\ last.op = "call"
    /\ Len(last.shape) = 3
    /\ last.raised = "BadDelegateCall"

\* every bind overload can be taken
BindEnabled ==
    /\ \A f \in FreeFunctions(variant) : ENABLED BindFunction(f) /\ ENABLED BindFunctionPointer(f)
    /\ \A i \in Instances : ENABLED BindMemberFunction(i) /\ ENABLED BindConstMemberFunction(i)
    /\ \A o \in Objects : ENABLED BindCallableView(o) /\ ENABLED BindConstCallableView(o)
    /\ \A F \in EmptyCallables(variant) : ENABLED BindEmptyCallable(F)
    /\ \A k \in Captures : ENABLED BindStatefulCallable(k)

\* C2: hasTarget() is true right after any bind, whatever was bound before, and
\* false right after reset() and after default construction; while the program
\* runs, every bind and reset() can be taken in every state of the delegate.
C2_HasTargetFollowsBindAndReset ==
    variant \in {"fixed", "dynamic"} =>
        /\ last.op = "bind" => hasTarget
        /\ last.op \in {"reset", "construct"} => ~hasTarget
        /\ Running => BindEnabled /\ ENABLED Reset

\* a function was bound over an earlier binding that had written the storage
C2_Witness ==
    /\ variant = "fixed"
    /\ last.op = "bind"
    /\ stub.kind = "executeFunction"
    /\ storage.member = "_storage"
    /\ hasTarget

\* C3: a call on a bound fixed-signature delegate invokes the target of the last
\* bind exactly once, with the argument supplied, and returns what a direct
\* call of that target returns.
C3_FixedCallIsDirectCall ==
    (variant = "fixed" /\ last.op = "call" /\ hasTarget) =>
        /\ last.raised = "none"
        /\ last.end = "returned"
        /\ last.invoked = <<Invocation(bound, <<last.x>>)>>
        /\ last.value = DirectCall(bound, last.x)

\* gi was bound after a member function on q, and the call went to gi
C3_Witness ==
    /\ variant = "fixed"
    /\ last.op = "call"
    /\ bound = Callee("gi", "none")
    /\ storage = Storage("_instance", "q")
    /\ last.x = MaxVal
    /\ last.value = DirectCall(Callee("gi", "none"), MaxVal)

\* the argument types of a call decay exactly to the parameter types of target,
\* and the call asks for the return type of target
DecaysExactly(shape, target) ==
    /\ DynamicRet = target.ret
    /\ Len(shape) = Len(target.args)
    /\ \A i \in 1..Len(shape) : decay_t(DeducedType(shape[i])) = decay_t(target.args[i])

\* an rvalue or a const lvalue is supplied for a non-const lvalue reference
CategoryIncompatible(shape, target) ==
    \E i \in 1..Len(shape) :
        /\ AdjustParameter(target.args[i]) = Type(target.args[i].base, "lref", FALSE)
        /\ shape[i] \in {"int", "const int", "const int&"}

\* C4: on a bound dynamic delegate, a call whose argument types decay exactly to
\* the parameter types of the target passes the gate and invokes the target
\* once with the arguments supplied; what the target writes through a
\* reference argument is seen by the caller.
C4_MatchingCallInvokesTarget ==
    [][(last'.op = "call" /\ variant = "dynamic" /\ hasTarget
            /\ DecaysExactly(last'.shape, StubTarget(stub)))
         => LET callee == StubCallee(stub, storage) IN
            /\ last'.raised = "none"
            /\ last'.end = "returned"
            /\ last'.invoked = <<Invocation(callee, ArgValues(last'.shape, z))>>
            /\ z' = ZAfter(callee, last'.shape, z)]_vars

\* the call t(z, false, b) on the lambda (int&, bool, const int) ended in a crash
C4_Witness ==
    /\ variant = "dynamic"
    /\ stub = Stub("executeEmptyCallable", "E3", FALSE)
    /\ last.op = "call"
    /\ last.shape = <<"int&", "bool", "int">>
    /\ last.end = "crash"

\* C5: a call on a bound dynamic delegate with a number of arguments other than
\* the number of parameters of the target raises BadDelegateArguments and does
\* not invoke the target.
C5_ArityMismatchRaises ==
    (variant = "dynamic" /\ last.op = "call" /\ hasTarget
        /\ Len(last.shape) # Len(StubTarget(stub).args))
    => /\ last.raised = "BadDelegateArguments"
       /\ last.end = "threw"
       /\ last.invoked = <<>>

\* the lambda of three parameters was called with two arguments
C5_Witness ==
    /\ variant = "dynamic"
    /\ stub = Stub("executeEmptyCallable", "E3", FALSE)
    /\ last.op = "call"
    /\ last.shape = <<"int&", "bool">>
    /\ last.raised = "BadDelegateArguments"

\* C6: a call on a bound dynamic delegate whose argument types decay to the
\* parameter types of the target, but which supplies an rvalue or a const
\* lvalue for a non-const lvalue-reference parameter, raises
\* BadDelegateArguments and does not invoke the target.
C6_CategoryMismatchRaises ==
    (variant = "dynamic" /\ last.op = "call" /\ hasTarget
        /\ DecaysExactly(last.shape, StubTarget(stub))
        /\ CategoryIncompatible(last.shape, StubTarget(stub)))
    => /\ last.raised = "BadDelegateArguments"
       /\ last.invoked = <<>>

\* the lambda (int&, bool, const int) was invoked by the call t(1, false, 1)
C6_Witness ==
    /\ variant = "dynamic"
    /\ stub = Stub("executeEmptyCallable", "E3", FALSE)
    /\ last.op = "call"
    /\ last.shape = <<"int", "bool", "int">>
    /\ last.raised = "none"
    /\ Len(last.invoked) = 1

\* C7: on a bound dynamic delegate, isInvokable<Args...>() returns true exactly
\* when operator()(Args...) passes the gate and false exactly when it raises
\* BadDelegateArguments; isInvokable raises nothing, invokes nothing and
\* leaves the delegate and the caller's variable as they were.
C7_IsInvokableAgreesWithCall ==
    [][(last'.op = "isInvokable" /\ variant = "dynamic" /\ hasTarget)
         => LET call == Wrapper(stub, InvokedFunction(DynamicRet, last'.shape), TRUE) IN
            /\ last'.value \in {0, 1}
            /\ last'.value = 1 <=> call = WrapperResult(TRUE, "none")
            /\ last'.value = 0 <=> call = WrapperResult(FALSE, "BadDelegateArguments")
            /\ last'.raised = "none"
            /\ last'.end = "returned"
            /\ last'.invoked = <<>>
            /\ UNCHANGED <<stub, storage, z, bound>>]_vars

\* isInvokable<int>() returned false on the lambda of three parameters
C7_Witness ==
    /\ variant = "dynamic"
    /\ stub = Stub("executeEmptyCallable", "E3", FALSE)
    /\ last.op = "isInvokable"
    /\ last.shape = <<"int">>
    /\ last.value = 0
    /\ last.end = "returned"

\* C8: isInvokable<Args...>() on a dynamic delegate raises nothing in any state,
\* bound or not: it returns true or false.
C8_IsInvokableNeverRaises ==
    (variant = "dynamic" /\ last.op = "isInvokable")
    => /\ last.raised = "none"
       /\ last.end = "returned"
       /\ last.value \in {0, 1}

\* isInvokable<int>() on a default-constructed delegate ended in std::terminate
C8_Witness ==
    /\ variant = "dynamic"
    /\ stub = throwBadCall
    /\ storage = ZeroStorage
    /\ last.op = "isInvokable"
    /\ last.shape = <<"int">>
    /\ last.raised = "BadDelegateCall"
    /\ last.end = "terminate"

\* C9: a call that raises BadDelegateCall or BadDelegateArguments invokes
\* nothing and leaves the stub, the storage and the caller's variable as they
\* were; on a bound delegate a call of the target's types is still let through
\* to the same target.
C9_FailedCallChangesNothing ==
    [][(last'.op = "call" /\ last'.raised \in {"BadDelegateCall", "BadDelegateArguments"})
         => /\ last'.invoked = <<>>
            /\ UNCHANGED <<stub, storage, legacy, z, bound>>
            /\ (variant = "dynamic" /\ hasTarget)
                 => \E shape \in CallShapes :
                       /\ DecaysExactly(shape, StubTarget(stub'))
                       /\ Wrapper(stub', InvokedFunction(DynamicRet, shape), TRUE)
                            = WrapperResult(TRUE, "none")
                       /\ StubCallee(stub', storage') = StubCallee(stub, storage)]_vars

\* a call with one argument was refused by a delegate bound to a closure
C9_Witness ==
    /\ variant = "dynamic"
    /\ stub.kind = "executeStatefulCallable"
    /\ storage = Storage("_storage", "k2")
    /\ bound = Callee("C", "k2")
    /\ last.op = "call"
    /\ last.raised = "BadDelegateArguments"
    /\ last.invoked = <<>>

\* C10: the fixed and the dynamic delegate raise nothing but BadDelegateCall and
\* BadDelegateArguments, and only the dynamic one raises BadDelegateArguments;
\* forwarding the arguments inside a stub raises nothing.
C10_OnlyTwoErrorKinds ==
    variant \in {"fixed", "dynamic"} =>
        /\ last.raised \in {"none", "BadDelegateCall", "BadDelegateArguments"}
        /\ last.raised = "BadDelegateArguments" => variant = "dynamic"

\* ReflectedArg::forward threw std::exception for a const rvalue argument
C10_Witness ==
    /\ variant = "dynamic"
    /\ stub = Stub("executeEmptyCallable", "E1", FALSE)
    /\ last.op = "call"
    /\ last.shape = <<"const int">>
    /\ last.raised = "std::exception"

\* C11: a dynamic delegate keeps no signature: a bind installs the new target
\* whatever was bound before; afterwards a call of the new target's types is
\* let through the gate to the new target, any other call raises
\* BadDelegateArguments, and no call invokes anything but the new target.
C11_RebindReplacesSignature ==
    [][variant = "dynamic" =>
         /\ last'.op = "bind" => StubCallee(stub', storage') = bound'
         /\ (last'.op = "call" /\ hasTarget) =>
               /\ \A i \in 1..Len(last'.invoked) : last'.invoked[i].callee = bound
               /\ DecaysExactly(last'.shape, CallableSignature[bound.fn])
                    => last'.raised \notin {"BadDelegateArguments", "BadDelegateCall"}
               /\ ~DecaysExactly(last'.shape, CallableSignature[bound.fn])
                    => /\ last'.raised = "BadDelegateArguments"
                       /\ last'.invoked = <<>>]_vars

\* the function pointer g0 (no parameter) was bound, then the lambda of three
\* parameters; the call without arguments was refused
C11_Witness ==
    /\ variant = "dynamic"
    /\ storage = Storage("_function", "g0")
    /\ stub = Stub("executeEmptyCallable", "E3", FALSE)
    /\ bound = Callee("E3", "none")
    /\ last.op = "call"
    /\ last.shape = <<>>
    /\ last.raised = "BadDelegateArguments"

C13_CopyIsMemberWise ==
    [][/\ last'.op \in {"copy", "move"}
             => /\ copy'.stub = stub /\ copy'.storage = storage
                /\ UNCHANGED <<stub, storage, bound>>
       /\ last'.op \in {"copy.bind", "copy.reset", "copy.call"}
             => UNCHANGED <<stub, storage, bound>>
       /\ last'.op \in {"bind", "reset", "call"} => UNCHANGED copy
       /\ (last'.op = "copy.call" /\ copy.bound # NoCallee)
             => /\ last'.invoked = <<Invocation(copy.bound, <<last'.x>>)>>
                /\ last'.value = TargetCall(copy.bound, last'.x, z).value
       /\ (last'.op = "call" /\ bound # NoCallee)
             => /\ last'.invoked = <<Invocation(bound, <<last'.x>>)>>
                /\ last'.value = TargetCall(bound, last'.x, z).value]_vars

C13_Witness ==
    /\ copy.stub = Stub("executeMemberFunction", "T::mi", FALSE)
    /\ copy.storage = Storage("_instance", "p")
    /\ stub = Stub("executeFunction", "gi", FALSE)
    /\ last.op = "copy.call"
    /\ last.value = DirectCall(Callee("T::mi", "p"), last.x)

\* the closure type of the build fits the buffer of the delegate of the build
Fits == build.F.size <= BufferSize(build.StorageSize) /\ build.F.align <= build.Alignment

ThreadBindings ==
    {Callee(f, "none") : f \in FreeFunctions("fixed")}
        \cup {Callee(MemberFunction("fixed"), i) : i \in Instances}
        \cup {Callee(Closure("fixed"), k) : k \in Captures}

\* the last call ran a stub on storage no bind wrote for it
TornCall ==
    /\ last.op = "call"
    /\ \/ last.end = "crashed"
       \/ \E i \in 1..Len(last.invoked) : last.invoked[i].callee \notin ThreadBindings

\* C15: with no lock a call that runs between the two stores of a bind finds
\* the stub of one binding and the storage of another and runs one on the
\* other; when every bind, reset and call is made under one lock no call
\* runs in such a state: every call runs the target of the last whole bind
\* or raises the unbound error.
C15_TornOnlyWithoutLock ==
    [][last'.op = "call" =>
          /\ (threads.pending # <<>> \/ TornCall') => ~threads.locking
          /\ threads.locking =>
                /\ hasTarget => last'.invoked = <<Invocation(bound, <<last'.x>>)>>
                /\ ~hasTarget => last'.raised = "BadDelegateCall"]_vars

C15_Witness ==
    /\ ~threads.locking
    /\ threads.pending # <<>>
    /\ last.op = "call"
    /\ last.invoked = <<Invocation(Callee("Ci", "p"), <<last.x>>)>>
    /\ stub = Stub("executeStatefulCallable", "Ci", FALSE)
    /\ storage = Storage("_instance", "p")

\* C16: sizeof of a fixed-signature delegate is the size of its buffer,
\* max(StorageSize, one pointer width): one pointer width for the default
\* configuration, max(sizeof(F), one pointer width) for a delegate deduced
\* from a callable F.
C16_SizeofIsStorageSize ==
    last.op = "sizeof" => last.value = BufferSize(build.StorageSize)

C16_Witness ==
    /\ last.op = "sizeof"
    /\ build.StorageSize = PointerWidth
    /\ build.Alignment = PointerWidth
    /\ last.value = PointerWidth + PointerWidth

\* C17: no operation on a delegate allocates memory: not its construction,
\* a bind, a reset, a call, nor the raising of the unbound or of the
\* mismatch error.
C17_NoHeapAllocation ==
    variant \in {"fixed", "dynamic"} => HeapAllocations(last) = 0

C17_Witness ==
    /\ variant = "dynamic"
    /\ last.op = "call"
    /\ last.raised = "BadDelegateArguments"
    /\ last.end = "threw"
    /\ HeapAllocations(last) = 2

\* every content the union can have
UnionContents ==
    {Storage(m, v) : m \in {"_instance", "_constInstance", "_function", "_storage"},
                     v \in Instances \cup Objects \cup Captures
                            \cup FreeFunctions("fixed") \cup FreeFunctions("dynamic") \cup {"null"}}

\* C18: in every state the member of the union that the installed stub reads
\* is the member written last, and the bind that installed the stub wrote
\* it: the stub reads the object that bind was given; a stub of a kind that
\* needs no storage (a function bound at compile time, an empty callable,
\* the fail stub) invokes the same thing whatever the union holds.
C18_StubReadsMemberLastWritten ==
    variant \in {"fixed", "dynamic"} =>
        /\ StubReads(stub) # "none" =>
              /\ storage.member = StubReads(stub)
              /\ StubCallee(stub, storage) = bound
        /\ StubReads(stub) = "none" =>
              \A s \in UnionContents : StubCallee(stub, s) = StubCallee(stub, storage)

C18_Witness ==
    /\ variant = "fixed"
    /\ stub = Stub("executeMemberFunction", "T::mi", TRUE)
    /\ storage = Storage("_constInstance", "q")
    /\ last.op = "call"
    /\ last.invoked = <<Invocation(Callee("T::mi", "q"), <<last.x>>)>>

\* the target a query asks for
QueriedCallee(q) == StubCallee(q.stub, Storage(StubReads(q.stub), q.val))

\* C19: hasTarget(x) returns true if and only if the delegate is bound, by
\* a binding of the kind of x, to the target x names; it returns false for
\* another value, another kind, after a reset and after a rebinding.
C19_HasTargetIffBound ==
    last.op = "hasTarget" =>
        (last.value = 1 <=> (hasTarget /\ stub = last.shape[1].stub
                                /\ bound = QueriedCallee(last.shape[1])))

C19_Witness ==
    /\ variant = "fixed"
    /\ bound = Callee("Ci", "k1")
    /\ stub = Stub("executeStatefulCallable", "Ci", FALSE)
    /\ last.op = "hasTarget"
    /\ last.shape = <<Query(stub, "k1")>>
    /\ last.end = "ill-formed"

\* C20: the hash the single-signature class records at its construction
\* never changes; assign(f) replaces the handle and the functor when f is not
\* null and the hash of its decayed signature is the recorded one, and
\* otherwise changes nothing; so whenever the handle is not null, the functor
\* and the handle are those of a function of the recorded signature.
C20_CommittedSignature ==
    [][variant = "legacy" =>
          /\ legacy'.hashedSignature = legacy.hashedSignature
          /\ last'.op = "assign" =>
                IF /\ last'.shape[1] # "null"
                   /\ sigHash(PointerTypeSignature(last'.shape[2])) = legacy.hashedSignature
                THEN legacy' = LegacyDelegate(last'.shape[2], last'.shape[1],
                                              legacy.hashedSignature)
                ELSE legacy' = legacy
          /\ legacy'.handle # "null" =>
                /\ PointerTypeOf(legacy'.handle) = legacy'.functor
                /\ sigHash(PointerTypeSignature(legacy'.functor)) = legacy'.hashedSignature]_vars

C20_Witness ==
    /\ variant = "legacy"
    /\ last.op = "operator="
    /\ last.shape = <<"f3", PointerTypeOf("f3")>>
    /\ legacy.handle = "f3"
    /\ legacy.hashedSignature = sigHash(PointerTypeSignature(PointerTypeOf("f3")))

\* C21: on the dynamic delegate whose gate is isCompatibleWith, a call that
\* passes as many arguments as the target has parameters but whose argument
\* at some position decays to another type than the parameter is rejected:
\* operator() raises BadDelegateArguments and invokes nothing, isInvokable
\* answers false.
C21_TypeMismatchRejected ==
    (/\ variant = "revised"
     /\ bound # NoCallee
     /\ last.op \in {"call", "isInvokable"}
     /\ Len(last.shape) = Len(RevisedSignature(bound.fn).args)
     /\ ~SameDecayedTypes(RevisedSignature(bound.fn), InvokedFunction(DynamicRet, last.shape)))
        => IF last.op = "call"
           THEN last.raised = "BadDelegateArguments" /\ last.invoked = <<>>
           ELSE last.value = 0

C21_Witness ==
    /\ variant = "revised"
    /\ bound = Callee("void(int)", "none")
    /\ last.op = "call"
    /\ last.shape = <<"float">>
    /\ last.raised = "none"
    /\ last.invoked = <<Invocation(bound, <<"float">>)>>

\* C22: the classification predicates are mutually exclusive: for every
\* combination of the type properties they test at most one of {function
\* pointer, likely captureless lambda, likely capturing lambda, empty
\* default-constructible callable} holds, so no construction from a callable
\* has two candidate constructors; and the captureless classification holds
\* only for a type convertible to a function pointer.
C22_ClassificationExclusive ==
    /\ Cardinality({c \in 1..4 :
            CASE c = 1 -> build.F.pointer
              [] c = 2 -> is_likely_captureless_lambda_v(build.F)
              [] c = 3 -> is_likely_capturing_lambda_v(build.F)
              [] OTHER -> is_empty_callable(build.F)}) <= 1
    /\ is_likely_captureless_lambda_v(build.F) => build.F.convertible
    /\ last.op = "construct" => Len(last.shape) <= 1

C22_Witness ==
    /\ last.op = "construct"
    /\ last.end = "ill-formed"
    /\ last.shape = <<"executeEmptyCallable", "retrospective_cast">>
    /\ ~build.F.assignable

\* the 1-based position of the last '>' of s, 0 when there is none
LastClose(s) ==
    IF \E k \in 1..Len(s) : s[k] = Head(TxtAngleClose)
    THEN CHOOSE k \in 1..Len(s) :
            /\ s[k] = Head(TxtAngleClose)
            /\ \A j \in (k + 1)..Len(s) : s[j] # Head(TxtAngleClose)
    ELSE 0

\* the '<' positions before e that have one more '<' than '>' up to e
UnmatchedOpens(s, e) ==
    {m \in 1..(e - 1) :
        /\ s[m] = Head(TxtAngleOpen)
        /\ Cardinality({k \in m..(e - 1) : s[k] = Head(TxtAngleOpen)})
             = Cardinality({k \in m..(e - 1) : s[k] = Head(TxtAngleClose)}) + 1}

\* C25: prettifyName(s) returns the empty text when s has no '>', and
\* otherwise exactly the characters strictly between the last '>' and the '<'
\* that matches it (nested pairs skipped), also when that '<' or the last
\* '>' is the first character; it never reads outside s.
C25_PrettifyNameSpan ==
    last.op = "prettifyName" =>
        /\ last.end = "returned"
        /\ LET s == last.shape
               e == LastClose(s)
           IN IF e = 0 THEN last.invoked = <<>>
              ELSE UnmatchedOpens(s, e) # {} =>
                      LET m == CHOOSE m \in UnmatchedOpens(s, e) :
                                  \A n \in UnmatchedOpens(s, e) : n <= m
                      IN last.invoked = SubSeq(s, m + 1, e - 1)

C25_Witness ==
    /\ last.op = "prettifyName"
    /\ last.shape = <<60, 97, 62>>
    /\ last.end = "returned"
    /\ last.invoked = <<60, 97>>

\* C23: an empty signature representation (prettifyName found no '>') is an
\* unknown signature: it never compares equal to another empty
\* representation with FunctionSignature::operator==, and never matches it
\* in the hash gate.
C23_EmptyNeverEqualsEmpty ==
    (/\ last.op \in {"operator==", "hash=="}
     /\ last.invoked[1] = <<>>
     /\ last.invoked[2] = <<>>) => last.value = 0

C23_Witness ==
    /\ last.op = "operator=="
    /\ last.shape = <<97>>
    /\ last.invoked = << <<>>, <<>>, <<44>> >>
    /\ last.value = 1

CountingCommas == last.op = "numberOfArguments" /\ last.end = "running"

CountedCommas ==
    /\ last.op = "numberOfArguments"
    /\ last.end = "returned"
    /\ LET s == last.shape IN
       last.value = Cardinality({k \in 1..Len(s) : s[k] = Head(TxtComma)})

\* C30: FunctionSignature::numberOfArguments() terminates on every
\* signature text and returns the number of ',' it contains (0 for a text
\* without a comma).
C30_NumberOfArgumentsTerminates ==
    CountingCommas ~> CountedCommas

C30_Witness ==
    /\ last.op = "numberOfArguments"
    /\ last.end = "running"
    /\ last.shape = <<97, 44, 97>>
    /\ last.x = 1
    /\ last.value = 3

\* h(0) = 0, h(i + 1) = (p * h(i) + s[i]) mod 2^32, over all characters of s
RECURSIVE HornerFold(_, _)
HornerFold(p, s) ==
    IF s = <<>> THEN UInt32(0, 0)
    ELSE MulAdd(p, HornerFold(p, SubSeq(s, 1, Len(s) - 1)), s[Len(s)])

\* the overload that ran returned the fold of the first len characters
HashIsFold ==
    last.value = HornerFold(IF last.op = "hash" THEN 31 ELSE last.x,
                            SubSeq(last.shape, 1, last.invoked[1]))

C26_BufferHoldsPointers ==
    /\ BufferSize(build.StorageSize) >= Max(PointerWidth, PointerWidth)
    /\ BufferSize(build.StorageSize) >= build.StorageSize
    /\ last.op = "sizeof" => last.value >= BufferSize(build.StorageSize) + PointerWidth

C26_Witness ==
    /\ variant = "dynamic"
    /\ build.StorageSize = 0
    /\ last.op = "sizeof"
    /\ BufferSize(build.StorageSize) = PointerWidth

\* C29: FunctionArgument::fromConcreteArg<Arg>(), and so
\* MetaFunction::nthArgument(i) for i below the parameter count, yields
\* isLValue exactly when Arg is an lvalue reference and isRValue exactly when
\* Arg is an rvalue reference, never both; at or beyond the parameter count
\* nthArgument returns the default argument, all four flags false.
C29_ReferenceFlags ==
    last.op = "nthArgument" =>
        IF last.x < Len(last.shape)
        THEN LET Arg == DeducedType(last.shape[last.x + 1]) IN
             /\ last.value.isLValue = (Arg.ref = "lref")
             /\ last.value.isRValue = (Arg.ref = "rref")
             /\ ~(last.value.isLValue /\ last.value.isRValue)
        ELSE last.value = FunctionArgument(FALSE, FALSE, FALSE, FALSE)

C29_Witness ==
    /\ last.op = "nthArgument"
    /\ last.shape = <<"int&">>
    /\ last.x = 0
    /\ last.value.isRValue
    /\ ~last.value.isLValue

\* C27: after a non-empty std::function that wraps a plain function pointer
\* f is bound (constructor, operator= or bind), the function target stored
\* in the delegate is f itself, not the address of the slot inside the
\* std::function: hasTarget(f) is true and a call invokes f.
C27_StdFunctionStoresPointer ==
    (/\ last.op = "bind"
     /\ Len(last.shape) = 2
     /\ last.shape[1] = "std::function"
     /\ last.shape[2] # "empty")
        => /\ last.end = "returned"
           /\ stub = Stub("executeStatelessCallable", PointerTypeOf(last.shape[2]), FALSE)
           /\ storage = Storage("_function", last.shape[2])
           /\ bound = Callee(last.shape[2], "none")

C27_Witness ==
    /\ last.op = "bind"
    /\ last.shape = <<"std::function", "gi">>
    /\ last.end = "ill-formed"
    /\ build.StorageSize = 2 * SizeofStdFunction
    /\ storage = Storage("_function", "hi")

\* C28: binding an empty std::function leaves the delegate unbound whatever
\* it held before: hasTarget() is false, no stub that a specific hasTarget
\* query names is installed, and the next call raises BadDelegateCall.
C28_EmptyStdFunctionResets ==
    (/\ last.op = "bind"
     /\ Len(last.shape) = 2
     /\ last.shape[1] = "std::function"
     /\ last.shape[2] = "empty")
        => /\ last.end = "returned"
           /\ ~hasTarget
           /\ stub = throwBadCall
           /\ bound = NoCallee

C28_Witness ==
    /\ last.op = "bind"
    /\ last.shape = <<"std::function", "empty">>
    /\ last.end = "ill-formed"
    /\ variant = "dynamic"
    /\ hasTarget

====
